---- MODULE Spec2Model ----
(***************************************************************************)
(* A model of nless (src/nless/cli.py): the streaming view-maintenance     *)
(* engine of NlessApp.  Text is modelled at character level: a string is a *)
(* sequence of one-character strings, so that splitting, markup wrapping,  *)
(* markup stripping, regex search and substitution are computed the way    *)
(* the code computes them.                                                 *)
(***************************************************************************)
EXTENDS Integers, Sequences, FiniteSets, TLC

VARIABLES
    raw_rows,              \* self.raw_rows: list of raw lines
    raw_header,            \* self.raw_header
    displayed_rows,        \* self.displayed_rows: list of rows, a row a list of cells
    columns,               \* data_table.columns: the column labels, in order
    delimiter,             \* self.delimiter: None, a literal, "raw" or a compiled regex
    current_filter,        \* self.current_filter: None or a compiled pattern
    filter_column_name,    \* self.filter_column_name: None or a column name
    search_term,           \* self.search_term: None or a compiled pattern
    sort_column,           \* self.sort_column: None or a column name
    sort_reverse,          \* self.sort_reverse
    unique_column_names,   \* self.unique_column_names: a set of column names
    count_by_column_key,   \* self.count_by_column_key: composite key -> count
    search_matches,        \* self.search_matches: list of Coordinate(row, column)
    current_match_index,   \* self.current_match_index
    cursor_coordinate,     \* data_table.cursor_coordinate as last set by the app
    first_row_parsed,      \* self.first_row_parsed
    data_initalized,       \* self.data_initalized
    is_tailing,            \* self.is_tailing
    mounted,               \* self.mounted
    handed,                \* the batch the last handler was handed, None for a command
    table_calls,           \* what the last handler told the table row by row, in order
    notice,                \* what the last handler passed to self.notify, in order
    rebuilt,               \* whether the last handler ended with a completed _update_table
    fault,                 \* the exception the last handler ended in, "none" if it returned
    thread,                \* the thread the last handler ran on: "ui" or "ingestion"
    pending,               \* the lines add_logs' loop (cli.py 664-665) has still to take
    ingested,              \* history: every line handed to add_logs, in arrival order
    commands,              \* history: how many commands the user has given
    built                  \* history: the specs the last completed _update_table ran under

vars == <<raw_rows, raw_header, displayed_rows, columns, delimiter, current_filter,
          filter_column_name, search_term, sort_column, sort_reverse,
          unique_column_names, count_by_column_key, search_matches,
          current_match_index, cursor_coordinate, first_row_parsed, data_initalized,
          is_tailing, table_calls, mounted, handed,
          notice, rebuilt, fault, thread, pending, ingested, commands, built>>

(***************************************************************************)
(* Bounds of the model.                                                    *)
(***************************************************************************)
\* The most raw lines ingested in one run (the header line included).
MaxLines == 3
\* The most lines in one batch handed to add_logs.
MaxBatch == 2
\* The most commands the user gives in one run.
MaxCommands == 2
\* The most commands in a run of toggle-sort commands only.
MaxSorts == 4
\* The most commands in a run of toggle-unique commands only.
MaxToggles == 3
\* The longest line of a first batch drawn character by character.
MaxLineLen == 3
\* The most lines in such a first batch.
MaxSampleLines == 2
\* The most delimiter commands after such a first batch.
MaxResplits == 1
\* The most values ingested in a run of one-value lines.
MaxNumbers == 3
\* The most commands in a run that ends in a search-to-filter.
MaxSteps == 3

(***************************************************************************)
(* Python values.                                                          *)
(***************************************************************************)
\* Python's None; an optional value x is None or Some(x).
None == <<>>
Some(x) == <<x>>
Val(o) == o[1]

\* str(...) of a literal.
Str1(c) == <<c>>
EmptyStr == <<>>

Max(a, b) == IF a >= b THEN a ELSE b
Min(a, b) == IF a <= b THEN a ELSE b

\* Code-point order of the characters the model uses (lowest first); "UP" and
\* "DOWN" stand for the one-character sort indicators U+25B2 and U+25BC.
CodePoints ==
    <<" ", "#", "(", ")", ",", "/", "0", "1", "2", "3", "4", "5", "6", "7", "8", "9",
      ";", "A", "U", "[", "]", "a", "b", "c", "e", "f", "g", "k", "l", "n", "o", "r",
      "s", "t", "u", "v", "w", "x", "|", "UP", "DOWN">>

\* ord(c), up to an order-preserving renumbering.
OrdTable ==
    [c \in {CodePoints[i] : i \in 1..Len(CodePoints)} |->
        CHOOSE i \in 1..Len(CodePoints) : CodePoints[i] = c]
ord(c) == OrdTable[c]

Digits == {"0", "1", "2", "3", "4", "5", "6", "7", "8", "9"}
DigitVal(c) == ord(c) - ord("0")
DigitChr(d) == CodePoints[ord("0") + d]

\* str.lower() of one character.
lower(c) == IF c = "A" THEN "a" ELSE IF c = "U" THEN "u" ELSE c

\* a < b for two str values (lexicographic by code point).
RECURSIVE StrLess(_, _)
StrLess(a, b) ==
    IF b = <<>> THEN FALSE
    ELSE IF a = <<>> THEN TRUE
    ELSE IF a[1] = b[1] THEN StrLess(Tail(a), Tail(b))
    ELSE ord(a[1]) < ord(b[1])

\* str.isnumeric(): non-empty and all digits.
isnumeric(s) == s # <<>> /\ \A i \in 1..Len(s) : s[i] \in Digits

\* int(s) of a numeric string.
RECURSIVE int(_)
int(s) == IF s = <<>> THEN 0 ELSE 10 * int(SubSeq(s, 1, Len(s) - 1)) + DigitVal(s[Len(s)])

\* str(n) of a non-negative int.
RECURSIVE str(_)
str(n) == IF n < 10 THEN <<DigitChr(n)>> ELSE str(n \div 10) \o <<DigitChr(n % 10)>>

\* s[i:]
From(s, i) == SubSeq(s, i, Len(s))

\* Whether p occurs in s at position i (1-based), case-insensitively when ci.
MatchAt(s, p, i, ci) ==
    /\ i + Len(p) - 1 <= Len(s)
    /\ \A j \in 1..Len(p) :
           IF ci THEN lower(s[i + j - 1]) = lower(p[j]) ELSE s[i + j - 1] = p[j]

\* str.find from position i on, as a position (1-based), 0 when absent.
RECURSIVE FindFrom(_, _, _, _)
FindFrom(s, p, i, ci) ==
    IF i + Len(p) - 1 > Len(s) THEN 0
    ELSE IF MatchAt(s, p, i, ci) THEN i
    ELSE FindFrom(s, p, i + 1, ci)

Find(s, p, ci) == FindFrom(s, p, 1, ci)

\* str.replace(old, new), old non-empty.
RECURSIVE replace(_, _, _)
replace(s, old, new) ==
    LET i == Find(s, old, FALSE)
    IN IF i = 0 THEN s
       ELSE SubSeq(s, 1, i - 1) \o new \o replace(From(s, i + Len(old)), old, new)

\* ",".join(parts)
RECURSIVE join(_, _)
join(sep, parts) ==
    IF parts = <<>> THEN <<>>
    ELSE IF Len(parts) = 1 THEN parts[1]
    ELSE parts[1] \o sep \o join(sep, Tail(parts))

\* line.split(sep), had it dropped the empty fields as line.split() does.
RECURSIVE split_collapsing(_, _)
split_collapsing(line, sep) ==
    LET i == Find(line, <<sep>>, FALSE)
    IN IF i = 0 THEN (IF line = <<>> THEN <<>> ELSE <<line>>)
       ELSE (IF i = 1 THEN <<>> ELSE <<SubSeq(line, 1, i - 1)>>)
                \o split_collapsing(From(line, i + 1), sep)

\* line.split(sep) for a one-character separator: every occurrence splits.
RECURSIVE split(_, _)
split(line, sep) ==
    LET i == Find(line, <<sep>>, FALSE)
    IN IF i = 0 THEN <<line>>
       ELSE <<SubSeq(line, 1, i - 1)>> \o split(From(line, i + 1), sep)

\* seq[i] for a Python index i (0-based, negative from the end); the index is
\* valid iff InRange.
InRange(seq, i) == -Len(seq) <= i /\ i < Len(seq)
At(seq, i) == IF i >= 0 THEN seq[i + 1] ELSE seq[Len(seq) + i + 1]

\* list.insert(i, x) for 0 <= i <= len.
Insert(seq, i, x) == SubSeq(seq, 1, i) \o <<x>> \o SubSeq(seq, i + 1, Len(seq))

\* list.remove(x): drops the first element equal to x.
Remove(seq, x) ==
    IF \E i \in 1..Len(seq) : seq[i] = x
    THEN LET i == CHOOSE j \in 1..Len(seq) :
                     seq[j] = x /\ \A h \in 1..(j - 1) : seq[h] # x
         IN SubSeq(seq, 1, i - 1) \o SubSeq(seq, i + 1, Len(seq))
    ELSE seq

(***************************************************************************)
(* Regular expressions.  The patterns the model submits are literal text,  *)
(* or hold an unclosed "(" and then do not compile.  A compiled pattern is *)
(* the literal it searches for (case-insensitively: re.IGNORECASE) and     *)
(* whether it is anchored as ^literal$ (filter by the word under cursor).  *)
(***************************************************************************)
\* Whether re.compile(src) succeeds.
Compiles(src) == \A i \in 1..Len(src) : src[i] # "("

\* re.compile(src, re.IGNORECASE) of a source that compiles.
re_compile(src) == [lit |-> src, full |-> FALSE]

\* re.compile(re.escape(src), re.IGNORECASE): every character is literal.
re_compile_escaped(src) == [lit |-> src, full |-> FALSE]

\* pattern.search(s) is not None.
re_search(pattern, s) ==
    IF pattern.full
    THEN Len(s) = Len(pattern.lit) /\ MatchAt(s, pattern.lit, 1, TRUE)
    ELSE Find(s, pattern.lit, TRUE) # 0

ReverseOpen == <<"[", "r", "e", "v", "e", "r", "s", "e", "]">>
ReverseClose == <<"[", "/", "r", "e", "v", "e", "r", "s", "e", "]">>
GreenOpen == <<"[", "#", "0", "0", "f", "f", "0", "0", "]">>
GreenClose == <<"[", "/", "#", "0", "0", "f", "f", "0", "0", "]">>

\* re.sub(pattern, lambda m: f"[reverse]{m.group(0)}[/reverse]", s): every
\* non-overlapping match, left to right, is wrapped.
RECURSIVE re_sub_reverse(_, _)
re_sub_reverse(pattern, s) ==
    IF pattern.full
    THEN IF re_search(pattern, s) THEN ReverseOpen \o s \o ReverseClose ELSE s
    ELSE LET i == Find(s, pattern.lit, TRUE)
             n == Len(pattern.lit)
         IN IF i = 0 \/ n = 0 THEN s
            ELSE SubSeq(s, 1, i - 1) \o ReverseOpen \o SubSeq(s, i, i + n - 1)
                     \o ReverseClose \o re_sub_reverse(pattern, From(s, i + n))

(***************************************************************************)
(* rich.markup._parse, for markup without backslash escapes: a tag is "["  *)
(* then one of [a-z#/@], then lazily characters other than "[", then "]".  *)
(***************************************************************************)
TagStart == {"#", "/", "a", "b", "c", "e", "f", "g", "k", "l", "n", "o", "r", "s",
             "t", "u", "v", "w", "x"}

\* The end (position of "]") of a tag that starts at s[i], 0 if none starts there.
TagEnd(s, i) ==
    IF /\ i + 2 <= Len(s)
       /\ s[i] = "["
       /\ s[i + 1] \in TagStart
       /\ \E j \in (i + 2)..Len(s) : s[j] = "]"
    THEN LET j == CHOOSE j \in (i + 2)..Len(s) :
                      s[j] = "]" /\ \A h \in (i + 2)..(j - 1) : s[h] # "]"
         IN IF \A h \in (i + 2)..(j - 1) : s[h] # "[" THEN j ELSE 0
    ELSE 0

\* The list _parse yields from position pos on: text pieces and tags, a tag an
\* element with tag = TRUE (its res[1] is None).
RECURSIVE rich_parse(_, _)
rich_parse(s, pos) ==
    IF \E i \in pos..Len(s) : TagEnd(s, i) # 0
    THEN LET i == CHOOSE i \in pos..Len(s) :
                      TagEnd(s, i) # 0 /\ \A h \in pos..(i - 1) : TagEnd(s, h) = 0
             before == IF i > pos
                       THEN <<[tag |-> FALSE, text |-> SubSeq(s, pos, i - 1)]>>
                       ELSE <<>>
         IN before \o <<[tag |-> TRUE, text |-> <<>>]>> \o rich_parse(s, TagEnd(s, i) + 1)
    ELSE IF pos <= Len(s) THEN <<[tag |-> FALSE, text |-> From(s, pos)]>> ELSE <<>>

RECURSIVE JoinTexts(_)
JoinTexts(parsed) ==
    IF parsed = <<>> THEN <<>> ELSE parsed[1].text \o JoinTexts(Tail(parsed))

\* NlessApp._get_cell_value_without_markup, of a str.
_get_cell_value_without_markup(cell_value) ==
    LET parsed_value == rich_parse(cell_value, 1)
    IN IF Len(parsed_value) > 1 THEN JoinTexts(parsed_value) ELSE cell_value

(***************************************************************************)
(* Cells.  A cell of a row is a str, or the int count _update_table puts   *)
(* in front of a deduplicated row.                                         *)
(***************************************************************************)
StrCell(s) == [int |-> FALSE, n |-> 0, s |-> s]
IntCell(n) == [int |-> TRUE, n |-> n, s |-> <<>>]

\* str(cell)
CellStr(cell) == IF cell.int THEN str(cell.n) ELSE cell.s

\* [f(x) for x in seq] for cells
StrCells(fields) == [i \in 1..Len(fields) |-> StrCell(fields[i])]

\* The text a cell shows once the markup is rendered away.
Plain(cell) == IF cell.int THEN str(cell.n) ELSE _get_cell_value_without_markup(cell.s)
PlainRow(row) == [i \in 1..Len(row) |-> Plain(row[i])]
PlainRows(rows) == [i \in 1..Len(rows) |-> PlainRow(rows[i])]

(***************************************************************************)
(* delimiter.split_line and delimiter.infer_delimiter.                     *)
(***************************************************************************)
Raw == <<"r", "a", "w">>
Comma == <<",">>
Space == <<" ">>
StrDelim(s) == [re |-> FALSE, s |-> s]
ReDelim(src) == [re |-> TRUE, s |-> src]
IsRaw(d) == d # None /\ ~Val(d).re /\ Val(d).s = Raw
IsPattern(d) == d # None /\ Val(d).re

\* The whitespace characters of the model's input.
IsBlank(c) == c = " " \/ c = "\t"

\* line.split(): runs of whitespace separate, no empty token.
RECURSIVE split_whitespace(_)
split_whitespace(line) ==
    IF line = <<>> THEN <<>>
    ELSE IF IsBlank(line[1]) THEN split_whitespace(Tail(line))
    ELSE IF \A j \in 1..Len(line) : ~IsBlank(line[j]) THEN <<line>>
    ELSE LET i == CHOOSE j \in 1..Len(line) :
                      IsBlank(line[j]) /\ \A k \in 1..(j - 1) : ~IsBlank(line[k])
         IN <<SubSeq(line, 1, i - 1)>> \o split_whitespace(From(line, i))

\* split_line(line, delimiter): whitespace collapse for " ", the line itself
\* for "raw" and for a regex without named groups, str.split otherwise.
split_line(line, d) ==
    IF Val(d).re THEN <<line>>
    ELSE IF Val(d).s = Raw THEN <<line>>
    ELSE IF Val(d).s = Space THEN split_whitespace(line)
    ELSE split(line, Val(d).s[1])

(***************************************************************************)
(* The app's state as one value, so that a handler is a function from the  *)
(* state before to the state after.  A handler that raises keeps what it   *)
(* had assigned up to then and records the exception in fault.             *)
(***************************************************************************)
Self ==
    [raw_rows |-> raw_rows, raw_header |-> raw_header,
     displayed_rows |-> displayed_rows, columns |-> columns,
     delimiter |-> delimiter, current_filter |-> current_filter,
     filter_column_name |-> filter_column_name, search_term |-> search_term,
     sort_column |-> sort_column, sort_reverse |-> sort_reverse,
     unique_column_names |-> unique_column_names,
     count_by_column_key |-> count_by_column_key,
     search_matches |-> search_matches,
     current_match_index |-> current_match_index,
     cursor_coordinate |-> cursor_coordinate,
     first_row_parsed |-> first_row_parsed, data_initalized |-> data_initalized,
     is_tailing |-> is_tailing, table_calls |-> table_calls,
     mounted |-> mounted, handed |-> handed,
     notice |-> notice, rebuilt |-> rebuilt, fault |-> fault, thread |-> thread,
     pending |-> pending, ingested |-> ingested, built |-> built]

Commit(st) ==
    /\ raw_rows' = st.raw_rows
    /\ raw_header' = st.raw_header
    /\ displayed_rows' = st.displayed_rows
    /\ columns' = st.columns
    /\ delimiter' = st.delimiter
    /\ current_filter' = st.current_filter
    /\ filter_column_name' = st.filter_column_name
    /\ search_term' = st.search_term
    /\ sort_column' = st.sort_column
    /\ sort_reverse' = st.sort_reverse
    /\ unique_column_names' = st.unique_column_names
    /\ count_by_column_key' = st.count_by_column_key
    /\ search_matches' = st.search_matches
    /\ current_match_index' = st.current_match_index
    /\ cursor_coordinate' = st.cursor_coordinate
    /\ first_row_parsed' = st.first_row_parsed
    /\ data_initalized' = st.data_initalized
    /\ is_tailing' = st.is_tailing
    /\ mounted' = st.mounted
    /\ handed' = st.handed
    /\ table_calls' = st.table_calls
    /\ notice' = st.notice
    /\ rebuilt' = st.rebuilt
    /\ fault' = st.fault
    /\ thread' = st.thread
    /\ pending' = st.pending
    /\ ingested' = st.ingested
    /\ built' = st.built
    /\ commands' = IF st.thread = "ui" THEN commands + 1 ELSE commands

NoNotice == <<>>
Notify(st, severity, text, n) ==
    [st EXCEPT !.notice = Append(@, [severity |-> severity, text |-> text, n |-> n])]
Raise(st, exc) == [st EXCEPT !.fault = exc]

\* The specs a view is computed from.
SpecOf(st) ==
    [delimiter |-> st.delimiter, current_filter |-> st.current_filter,
     filter_column_name |-> st.filter_column_name, search_term |-> st.search_term,
     sort_column |-> st.sort_column, sort_reverse |-> st.sort_reverse,
     unique_column_names |-> st.unique_column_names]

(***************************************************************************)
(* Column labels.                                                          *)
(***************************************************************************)
CountName == <<"c", "o", "u", "n", "t">>
LogName == <<"l", "o", "g">>
UniqueMark == <<" ", "(", "U", ")">>
AscMark == <<" ", "UP">>
DescMark == <<" ", "DOWN">>

\* NlessApp._strip_column_indicators
_strip_column_indicators(col_name) ==
    replace(replace(replace(col_name, UniqueMark, <<>>), AscMark, <<>>), DescMark, <<>>)

\* The loop of _get_col_idx_by_name from column i (1-based) on.
RECURSIVE ColumnScan(_, _, _)
ColumnScan(cols, col_name, i) ==
    IF i > Len(cols) THEN None
    ELSE IF _strip_column_indicators(cols[i]) = col_name THEN Some(i - 1)
    ELSE ColumnScan(cols, col_name, i + 1)

\* NlessApp._get_col_idx_by_name: the 0-based index of the first column whose
\* stripped label is col_name, or None.
_get_col_idx_by_name(cols, col_name) == ColumnScan(cols, col_name, 1)

\* The order in which a loop visits a set of column names (the same set is
\* visited in the same order everywhere): here by code point.
RECURSIVE IterOrder(_)
IterOrder(S) ==
    IF S = {} THEN <<>>
    ELSE LET m == CHOOSE x \in S : \A y \in S \ {x} : StrLess(x, y)
         IN <<m>> \o IterOrder(S \ {m})

\* defaultdict(lambda: 0) read
Count(table, key) == IF key \in DOMAIN table THEN table[key] ELSE 0
SetCount(table, key, n) ==
    [k \in DOMAIN table \cup {key} |-> IF k = key THEN n ELSE table[k]]
EmptyCounts == [k \in {} |-> 0]

(***************************************************************************)
(* NlessApp._update_table (RebuildView), stage by stage.                   *)
(***************************************************************************)
HasCountLabel(cols) == _get_col_idx_by_name(cols, CountName) # None

\* expected_cell_count (cli.py 357-363)
expected_cell_count(cols) == Len(cols) - (IF HasCountLabel(cols) THEN 1 ELSE 0)

\* curr_columns as re-added to the table (cli.py 364-374)
curr_columns(st) ==
    IF st.unique_column_names # {} /\ ~HasCountLabel(st.columns)
    THEN <<CountName>> \o st.columns
    ELSE st.columns

\* any(current_filter.search(_get_cell_value_without_markup(cell)) for cell in cells)
AnyCellMatches(pattern, fields) ==
    \E i \in 1..Len(fields) : re_search(pattern, _get_cell_value_without_markup(fields[i]))

\* 1. Filter rows (cli.py 380-415): the loop over raw_rows from row i on; acc
\* holds filtered_rows, len(rows_with_inconsistent_length) and the exception;
\* found is _get_col_idx_by_name(self.filter_column_name), the same in every
\* iteration.
RECURSIVE FilterLoop(_, _, _, _, _)
FilterLoop(st, found, expected, i, acc) ==
    IF i > Len(st.raw_rows) THEN acc
    ELSE LET cells == split_line(st.raw_rows[i], st.delimiter)
             keep == [acc EXCEPT !.rows = Append(@, cells)]
         IN IF st.current_filter = None
            THEN IF Len(cells) = expected
                 THEN FilterLoop(st, found, expected, i + 1, keep)
                 ELSE FilterLoop(st, found, expected, i + 1, [acc EXCEPT !.bad = @ + 1])
            ELSE IF Len(cells) # expected
            THEN FilterLoop(st, found, expected, i + 1, [acc EXCEPT !.bad = @ + 1])
            ELSE IF st.filter_column_name = None
            THEN IF AnyCellMatches(Val(st.current_filter), cells)
                 THEN FilterLoop(st, found, expected, i + 1, keep)
                 ELSE FilterLoop(st, found, expected, i + 1, acc)
            ELSE LET col_idx == IF st.unique_column_names # {}
                                THEN Val(found) - 1 ELSE Val(found)
                 IN IF found = None THEN acc    \* break
                    ELSE IF ~InRange(cells, col_idx)
                    THEN [acc EXCEPT !.fault = "IndexError"]
                    ELSE IF re_search(Val(st.current_filter),
                                      _get_cell_value_without_markup(At(cells, col_idx)))
                    THEN FilterLoop(st, found, expected, i + 1, keep)
                    ELSE FilterLoop(st, found, expected, i + 1, acc)

FilterStage(st, cols) ==
    FilterLoop(st,
               IF st.filter_column_name = None THEN None
               ELSE _get_col_idx_by_name(cols, Val(st.filter_column_name)),
               expected_cell_count(st.columns), 1,
               [rows |-> <<>>, bad |-> 0, fault |-> "none"])

\* _get_col_idx_by_name of every unique column name, in the loop's order: the
\* same for every row a handler looks at.
KeyColumns(cols, unique) ==
    LET names == IterOrder(unique)
    IN [i \in 1..Len(names) |-> _get_col_idx_by_name(cols, names[i])]

\* The composite key of a row (cli.py 422-434, 729-748): the key columns'
\* values joined by ","; shift is what is subtracted from a column's index.
\* cells are Cell values; acc holds the values so far and the exception.
RECURSIVE KeyLoop(_, _, _, _)
KeyLoop(key_columns, cells, shift, acc) ==
    IF key_columns = <<>> THEN acc
    ELSE LET found == key_columns[1]
             col_idx == Val(found) - shift
         IN IF found = None THEN KeyLoop(Tail(key_columns), cells, shift, acc)
            ELSE IF ~InRange(cells, col_idx) THEN [acc EXCEPT !.fault = "IndexError"]
            ELSE IF At(cells, col_idx).int THEN [acc EXCEPT !.fault = "TypeError"]
            ELSE KeyLoop(Tail(key_columns), cells, shift,
                         [acc EXCEPT !.parts = Append(@,
                              _get_cell_value_without_markup(At(cells, col_idx).s))])

CompositeKey(key_columns, cells, shift) ==
    LET r == KeyLoop(key_columns, cells, shift, [parts |-> <<>>, fault |-> "none"])
    IN [key |-> join(Comma, r.parts), fault |-> r.fault]

\* dedup_map[composite_key] = cells: a dict keeps a key's first position.
DictPut(map, key, cells) ==
    IF \E i \in 1..Len(map) : map[i].key = key
    THEN [i \in 1..Len(map) |->
             IF map[i].key = key THEN [key |-> key, cells |-> cells] ELSE map[i]]
    ELSE Append(map, [key |-> key, cells |-> cells])

\* 2. Dedup by composite column key (cli.py 417-443), the loop over
\* filtered_rows from row i on.
RECURSIVE DedupLoop(_, _, _, _)
DedupLoop(key_columns, rows, i, acc) ==
    IF i > Len(rows) THEN acc
    ELSE LET k == CompositeKey(key_columns, StrCells(rows[i]), 1)
         IN IF k.fault # "none" THEN [acc EXCEPT !.fault = k.fault]
            ELSE DedupLoop(key_columns, rows, i + 1,
                     [acc EXCEPT !.map = DictPut(@, k.key, rows[i]),
                                 !.counts = SetCount(@, k.key, Count(@, k.key) + 1)])

\* deduped_rows (cli.py 438-441): the count goes in front of each kept row.
DedupedRows(r) ==
    [rows |-> [i \in 1..Len(r.map) |->
                  <<IntCell(r.counts[r.map[i].key])>> \o StrCells(r.map[i].cells)],
     counts |-> r.counts, fault |-> r.fault]

DedupStage(st, cols, rows) ==
    IF st.unique_column_names # {}
    THEN DedupedRows(DedupLoop(KeyColumns(cols, st.unique_column_names), rows, 1,
                               [map |-> <<>>, counts |-> EmptyCounts, fault |-> "none"]))
    ELSE [rows |-> [i \in 1..Len(rows) |-> StrCells(rows[i])],
          counts |-> EmptyCounts, fault |-> "none"]

\* a < b for two cells of one type.
CellLess(a, b) == IF a.int THEN a.n < b.n ELSE StrLess(a.s, b.s)

\* list.sort(key=..., reverse=...): stable in both directions.  idx is 1-based.
RECURSIVE SortedInsert(_, _, _, _)
SortedInsert(sorted, row, idx, reverse) ==
    IF sorted = <<>> THEN <<row>>
    ELSE LET last == sorted[Len(sorted)]
             before == IF reverse THEN CellLess(last[idx], row[idx])
                                  ELSE CellLess(row[idx], last[idx])
         IN IF before
            THEN Append(SortedInsert(SubSeq(sorted, 1, Len(sorted) - 1), row, idx, reverse),
                        last)
            ELSE Append(sorted, row)

RECURSIVE SortRows(_, _, _)
SortRows(rows, idx, reverse) ==
    IF rows = <<>> THEN <<>>
    ELSE SortedInsert(SortRows(SubSeq(rows, 1, Len(rows) - 1), idx, reverse),
                      rows[Len(rows)], idx, reverse)

\* 3. Sort rows (cli.py 445-456).  An IndexError of the key function is caught
\* and leaves the rows as they are; comparing an int with a str is a TypeError.
SortStage(st, cols, rows) ==
    LET found == IF st.sort_column = None THEN None
                 ELSE _get_col_idx_by_name(cols, Val(st.sort_column))
        idx == Val(found) + 1
    IN IF found = None THEN [rows |-> rows, fault |-> "none"]
       ELSE IF \E i \in 1..Len(rows) : idx > Len(rows[i])
       THEN [rows |-> rows, fault |-> "none"]
       ELSE IF \E i, j \in 1..Len(rows) : rows[i][idx].int # rows[j][idx].int
       THEN [rows |-> rows, fault |-> "TypeError"]
       ELSE [rows |-> SortRows(rows, idx, st.sort_reverse), fault |-> "none"]

\* 4. Find search matches (cli.py 460-483): the cells of one row from column
\* c on (1-based); acc holds highlighted_cells, the Coordinates and the exception.
RECURSIVE HighlightCells(_, _, _, _, _)
HighlightCells(pattern, cells, r, c, acc) ==
    IF c > Len(cells) THEN acc
    ELSE IF re_search(pattern, CellStr(cells[c]))
    THEN IF cells[c].int
         THEN [acc EXCEPT !.fault = "TypeError"]    \* re.sub on an int
         ELSE HighlightCells(pattern, cells, r, c + 1,
                  [acc EXCEPT !.cells = Append(@, StrCell(re_sub_reverse(pattern, cells[c].s))),
                              !.matches = Append(@, <<r, c - 1>>)])
    ELSE HighlightCells(pattern, cells, r, c + 1, [acc EXCEPT !.cells = Append(@, cells[c])])

RECURSIVE SearchLoop(_, _, _, _)
SearchLoop(pattern, rows, i, acc) ==
    IF i > Len(rows) THEN acc
    ELSE LET h == HighlightCells(pattern, rows[i], i - 1, 1,
                      [cells |-> <<>>, matches |-> acc.matches, fault |-> "none"])
         IN IF h.fault # "none"
            THEN [acc EXCEPT !.matches = h.matches, !.fault = h.fault]
            ELSE SearchLoop(pattern, rows, i + 1,
                     [acc EXCEPT !.rows = Append(@, h.cells), !.matches = h.matches])

SearchStage(st, rows) ==
    IF st.search_term # None
    THEN SearchLoop(Val(st.search_term), rows, 1,
                    [rows |-> <<>>, matches |-> <<>>, fault |-> "none"])
    ELSE [rows |-> rows, matches |-> <<>>, fault |-> "none"]

\* _update_table from the search's result h on (cli.py 485-498); s is self
\* after the stages before, bad is len(rows_with_inconsistent_length).
Searched(st, s, bad, h) ==
    LET s2 == [s EXCEPT !.search_matches = h.matches]
        s3 == IF bad > 0
              THEN Notify(s2, "warning", "rows not matching columns, skipped", bad)
              ELSE s2
    IN IF h.fault # "none" THEN Raise(s2, h.fault)
       ELSE [s3 EXCEPT !.displayed_rows = h.rows, !.rebuilt = TRUE,
                       !.built = Some(SpecOf(st))]

\* _update_table from the sort's result o on (cli.py 458-498).
Sorted(st, s, bad, o) ==
    IF o.fault # "none" THEN Raise(s, o.fault)
    ELSE Searched(st, s, bad, SearchStage(st, o.rows))

\* _update_table from the dedup's result d on (cli.py 445-498).
Deduped(st, cols, s, bad, d) ==
    IF d.fault # "none" THEN Raise([s EXCEPT !.count_by_column_key = d.counts], d.fault)
    ELSE Sorted(st, [s EXCEPT !.count_by_column_key = d.counts], bad,
                SortStage(st, cols, d.rows))

\* _update_table from the filter's result f on (cli.py 417-498).
Filtered(st, cols, s, f) ==
    IF f.fault # "none" THEN Raise(s, f.fault)
    ELSE Deduped(st, cols, s, f.bad, DedupStage(st, cols, f.rows))

\* _update_table once the columns are re-added (cli.py 376-498).
WithColumns(st, cols) ==
    Filtered(st, cols,
             [st EXCEPT !.columns = cols, !.search_matches = <<>>,
                        !.current_match_index = -1,
                        !.count_by_column_key = EmptyCounts],
             FilterStage(st, cols))

\* NlessApp._update_table
_update_table(st) == WithColumns(st, curr_columns(st))

(***************************************************************************)
(* NlessApp._add_log_line (AppendRecord).                                  *)
(***************************************************************************)
\* NlessApp._bisect_left: the list is re-sorted (as ints when the new value is
\* numeric, which raises ValueError on a value int() rejects), and the index
\* is the number of values below the new one, counted from the end if reverse.
_bisect_left(r_list, value, reverse) ==
    LET numeric == isnumeric(value)
        below == IF numeric
                 THEN Cardinality({i \in 1..Len(r_list) : int(r_list[i]) < int(value)})
                 ELSE Cardinality({i \in 1..Len(r_list) : StrLess(r_list[i], value)})
    IN IF numeric /\ \E i \in 1..Len(r_list) : ~isnumeric(r_list[i])
       THEN [idx |-> 0, fault |-> "ValueError"]
       ELSE [idx |-> IF reverse THEN Len(r_list) - below ELSE below, fault |-> "none"]

\* The filter test of one line (cli.py 706-724): "pass", "drop" (return).
AppendFilter(st, cells) ==
    IF st.current_filter = None THEN "pass"
    ELSE IF st.filter_column_name = None
    THEN IF AnyCellMatches(Val(st.current_filter), cells) THEN "pass" ELSE "drop"
    ELSE LET found == _get_col_idx_by_name(st.columns, Val(st.filter_column_name))
         IN IF found = None THEN "drop"
            ELSE IF re_search(Val(st.current_filter),
                              _get_cell_value_without_markup(cells[Val(found) + 1]))
            THEN "pass" ELSE "drop"

\* The search for a displayed row with the new row's key (cli.py 739-762),
\* from row i (1-based) on: old_index (0-based) or None, or the exception.
RECURSIVE FindOldRow(_, _, _, _)
FindOldRow(st, key_columns, new_key, i) ==
    IF i > Len(st.displayed_rows) THEN [old_index |-> None, fault |-> "none"]
    ELSE LET k == CompositeKey(key_columns, st.displayed_rows[i], 0)
         IN IF k.fault # "none" THEN [old_index |-> None, fault |-> k.fault]
            ELSE IF k.key = new_key THEN [old_index |-> Some(i - 1), fault |-> "none"]
            ELSE FindOldRow(st, key_columns, new_key, i + 1)

\* new_cells (cli.py 751-758): every cell wrapped in green, the count first.
GreenCells(cells, count) ==
    [i \in 1..Len(cells) |->
        GreenOpen \o (IF i = 1 THEN str(count) ELSE _get_cell_value_without_markup(cells[i]))
                  \o GreenClose]

\* The highlight of the new row (cli.py 785-800), from column c (1-based) on.
RECURSIVE HighlightNew(_, _, _, _, _)
HighlightNew(pattern, cells, new_index, c, acc) ==
    IF c > Len(cells) THEN acc
    ELSE IF re_search(pattern, cells[c])
    THEN HighlightNew(pattern, cells, new_index, c + 1,
             [cells |-> Append(acc.cells, re_sub_reverse(pattern, cells[c])),
              matches |-> Append(acc.matches, <<new_index, c - 1>>)])
    ELSE HighlightNew(pattern, cells, new_index, c + 1,
             [acc EXCEPT !.cells = Append(@, cells[c])])

\* The insertion index (cli.py 767-783).
NewIndex(st, cells) ==
    IF st.sort_column = None
    THEN [idx |-> Len(st.displayed_rows), fault |-> "none"]
    ELSE LET found == _get_col_idx_by_name(st.columns, Val(st.sort_column))
             c == Val(found) + 1
         IN IF found = None THEN [idx |-> 0, fault |-> "TypeError"]   \* cells[None]
            ELSE IF \E i \in 1..Len(st.displayed_rows) : c > Len(st.displayed_rows[i])
            THEN [idx |-> 0, fault |-> "IndexError"]
            ELSE _bisect_left(
                     [i \in 1..Len(st.displayed_rows) |->
                         _get_cell_value_without_markup(CellStr(st.displayed_rows[i][c]))],
                     _get_cell_value_without_markup(cells[c]),
                     st.sort_reverse)

\* Inserted, had it scrolled to the bottom whether tailing or not.
InsertedScrolling(s, old_index, new_index, h) ==
    LET inserted == Insert(s.displayed_rows, new_index, StrCells(h.cells))
    IN [s EXCEPT !.search_matches = h.matches,
                 !.displayed_rows =
                     IF old_index # None
                     THEN Remove(inserted, s.displayed_rows[Val(old_index) + 1])
                     ELSE inserted,
                 !.table_calls = @ \o <<"add_row_at", "action_scroll_bottom">>]

\* _add_log_line from the insertion on (cli.py 802-814): h holds the cells as
\* highlighted and the matches, old_index the row a dedup collision replaces.
Inserted(s, old_index, new_index, h) ==
    LET inserted == Insert(s.displayed_rows, new_index, StrCells(h.cells))
    IN [s EXCEPT !.search_matches = h.matches,
                 !.displayed_rows =
                     IF old_index # None
                     THEN Remove(inserted, s.displayed_rows[Val(old_index) + 1])
                     ELSE inserted,
                 !.table_calls =
                     @ \o (IF s.is_tailing THEN <<"add_row_at", "action_scroll_bottom">>
                           ELSE <<"add_row_at">>)]

\* _add_log_line from the search highlight on (cli.py 785-812).
Indexed(s, cells, old_index, at) ==
    IF at.fault # "none" THEN Raise(s, at.fault)
    ELSE Inserted(s, old_index, at.idx,
                  IF s.search_term # None
                  THEN HighlightNew(Val(s.search_term), cells, at.idx, 1,
                                    [cells |-> <<>>, matches |-> s.search_matches])
                  ELSE [cells |-> cells, matches |-> s.search_matches])

\* _add_log_line from the sort on (cli.py 767-812).
Placed(s, cells, old_index) == Indexed(s, cells, old_index, NewIndex(s, cells))

\* _add_log_line once the displayed rows are searched for the new row's key
\* (cli.py 749-765): old is what FindOldRow found.
Looked(st, cells, new_key, old) ==
    LET collide == old.old_index # None
        count == IF collide THEN Count(st.count_by_column_key, new_key) + 1 ELSE 1
    IN IF old.fault # "none" THEN Raise(st, old.fault)
       ELSE Placed([st EXCEPT !.count_by_column_key = SetCount(@, new_key, count)],
                   IF collide THEN GreenCells(cells, count) ELSE cells,
                   old.old_index)

\* _add_log_line once the new row's key is computed (cli.py 739-765).
Keyed(st, cells, key_columns, new_key) ==
    IF new_key.fault # "none" THEN Raise(st, new_key.fault)
    ELSE Looked(st, cells, new_key.key, FindOldRow(st, key_columns, new_key.key, 1))

\* _add_log_line with a line that passed the filter, deduplicating
\* (cli.py 728-765).
Unique(st, cells, key_columns) ==
    Keyed(st, cells, key_columns, CompositeKey(key_columns, StrCells(cells), 0))

\* _add_log_line from the length check on (cli.py 702-814).
Split(st, cells) ==
    IF Len(cells) # Len(st.columns) THEN st
    ELSE IF AppendFilter(st, cells) = "drop" THEN st
    ELSE IF st.unique_column_names # {}
    THEN Unique(st, cells, KeyColumns(st.columns, st.unique_column_names))
    ELSE Placed(st, cells, None)

\* cells.insert(0, "1") when deduplicating (cli.py 700-701)
WithCount(st, cells) ==
    IF st.unique_column_names # {} THEN <<Str1("1")>> \o cells ELSE cells

\* NlessApp._add_log_line
_add_log_line(st, log_line) ==
    Split(st, WithCount(st, split_line(log_line, st.delimiter)))

(***************************************************************************)
(* delimiter.infer_delimiter: each candidate is scored on each non-blank   *)
(* sample line; the best score wins, "raw" if the best score is 0.         *)
(***************************************************************************)
Candidates == <<",", "\t", "|", ";", " ">>

\* len(p.strip())
StripLen(p) ==
    IF \A i \in 1..Len(p) : IsBlank(p[i]) THEN 0
    ELSE LET a == CHOOSE i \in 1..Len(p) : ~IsBlank(p[i]) /\ \A j \in 1..(i - 1) : IsBlank(p[j])
             b == CHOOSE i \in 1..Len(p) : ~IsBlank(p[i]) /\ \A j \in (i + 1)..Len(p) : IsBlank(p[j])
         IN b - a + 1

RECURSIVE SumLens(_)
SumLens(parts) == IF parts = <<>> THEN 0 ELSE StripLen(parts[1]) + SumLens(Tail(parts))

Abs(x) == IF x < 0 THEN -x ELSE x

CandidateParts(line, d) == IF d = " " THEN split_whitespace(line) ELSE split(line, d)

\* What one sample line adds to the score of candidate d.
LineScore(line, d, sample) ==
    LET parts == CandidateParts(line, d)
        n == Len(parts)
        full == \A i \in 1..n : StripLen(parts[i]) > 0
        total == SumLens(parts)
        \* abs(l - avg) < avg for every length l, with avg = total / n
        uniform == \A i \in 1..n : Abs(n * StripLen(parts[i]) - total) < total
    IN IF StripLen(line) = 0 \/ n <= 1 THEN 0
       ELSE n + (IF full THEN 2 ELSE 0)
              + (IF uniform THEN 1 ELSE 0)
              + (IF d = "\t" /\ full THEN 3 ELSE 0)
              + (IF d = " " /\ Len(sample) > 1
                 THEN IF n = Len(split_whitespace(sample[1])) THEN 2 ELSE -20
                 ELSE 0)

RECURSIVE Score(_, _, _)
Score(sample, d, i) ==
    IF i > Len(sample) THEN 0 ELSE LineScore(sample[i], d, sample) + Score(sample, d, i + 1)

\* What _infer_delimiter returns when no candidate wins.
NotApplicable == <<"n", "/", "a">>

\* _infer_delimiter, had it fallen back on the comma when no candidate wins
\* ("Default to comma if no clear winner").
_infer_delimiter_defaulting(sample) ==
    LET best == CHOOSE i \in 1..Len(Candidates) :
                    /\ \A j \in 1..Len(Candidates) :
                           Score(sample, Candidates[j], 1) <= Score(sample, Candidates[i], 1)
                    /\ \A j \in 1..(i - 1) :
                           Score(sample, Candidates[j], 1) < Score(sample, Candidates[i], 1)
    IN IF Score(sample, Candidates[best], 1) = 0 THEN Comma
       ELSE <<Candidates[best]>>

\* _infer_delimiter (src/nless.py): max over the scores, the first candidate
\* among equals; "n/a" if the best score is 0.
_infer_delimiter(sample) ==
    LET best == CHOOSE i \in 1..Len(Candidates) :
                    /\ \A j \in 1..Len(Candidates) :
                           Score(sample, Candidates[j], 1) <= Score(sample, Candidates[i], 1)
                    /\ \A j \in 1..(i - 1) :
                           Score(sample, Candidates[j], 1) < Score(sample, Candidates[i], 1)
    IN IF Score(sample, Candidates[best], 1) = 0 THEN NotApplicable
       ELSE <<Candidates[best]>>

\* delimiter.infer_delimiter: _infer_delimiter with "raw" for "n/a", which is
\* what add_logs tests for (cli.py 645).
infer_delimiter(sample) ==
    LET d == _infer_delimiter(sample)
    IN IF d = NotApplicable THEN StrDelim(Raw) ELSE StrDelim(d)

(***************************************************************************)
(* NlessApp.add_logs                                                       *)
(***************************************************************************)
\* for line in log_lines: self._add_log_line(line); an exception ends the loop.
RECURSIVE AddLines(_, _)
AddLines(st, log_lines) ==
    IF log_lines = <<>> \/ st.fault # "none" THEN st
    ELSE AddLines(_add_log_line(st, log_lines[1]), Tail(log_lines))

SampleSize == 5

\* Extended, had it left the header line in the batch it extends raw_rows
\* with.
ExtendedWithHeader(st, log_lines, d) ==
    LET header == ~IsRaw(d) /\ ~st.first_row_parsed
        s1 == [st EXCEPT
                 !.delimiter = d,
                 !.raw_header = IF header THEN log_lines[1] ELSE @,
                 !.columns = IF st.first_row_parsed THEN @
                             ELSE IF header THEN @ \o split_line(log_lines[1], d)
                             ELSE Append(@, LogName),
                 !.first_row_parsed = TRUE]
    IN [s1 EXCEPT !.raw_rows = @ \o log_lines, !.pending = log_lines]

\* add_logs, once self.delimiter is set to d, up to and including
\* self.raw_rows.extend(log_lines) (cli.py 645-659); pending holds the lines
\* the loop of cli.py 664-665 is to take.
Extended(st, log_lines, d) ==
    LET header == ~IsRaw(d) /\ ~st.first_row_parsed
        s1 == [st EXCEPT
                 !.delimiter = d,
                 !.raw_header = IF header THEN log_lines[1] ELSE @,
                 !.columns = IF st.first_row_parsed THEN @
                             ELSE IF header THEN @ \o split_line(log_lines[1], d)
                             ELSE Append(@, LogName),
                 !.first_row_parsed = TRUE]
        rest == IF header THEN Tail(log_lines) ELSE log_lines
    IN [s1 EXCEPT !.raw_rows = @ \o rest, !.pending = rest]

\* add_logs after the extend (cli.py 660-667).
Shown(s) ==
    IF ~s.data_initalized
    THEN _update_table([s EXCEPT !.data_initalized = TRUE, !.pending = <<>>])
    ELSE AddLines([s EXCEPT !.pending = <<>>], s.pending)

\* add_logs once self.delimiter is set to d (cli.py 645-667).
Delimited(st, log_lines, d) == Shown(Extended(st, log_lines, d))

\* NlessApp.add_logs
add_logs(st, log_lines) ==
    Delimited(st, log_lines,
              IF st.delimiter = None
              THEN Some(infer_delimiter(SubSeq(log_lines, 1, Min(SampleSize, Len(log_lines)))))
              ELSE st.delimiter)

(***************************************************************************)
(* The user's commands.  c is the cursor's column (1-based) when the       *)
(* command is given.                                                       *)
(***************************************************************************)
\* _navigate_search, had it put the match cursor on the first entry before
\* finding that there is none.
_navigate_search_eager(st, direction) ==
    LET num_matches == Len(st.search_matches)
        idx == (st.current_match_index + direction + num_matches) % num_matches
    IN IF st.search_matches = <<>>
       THEN Notify([st EXCEPT !.current_match_index = 0],
                   "warning", "No search results.", 0)
       ELSE [st EXCEPT !.current_match_index = idx,
                       !.cursor_coordinate = st.search_matches[idx + 1]]

\* _navigate_search, had it stopped at the first and the last match instead
\* of wrapping.
_navigate_search_clamped(st, direction) ==
    LET num_matches == Len(st.search_matches)
        idx == Max(0, Min(num_matches - 1, st.current_match_index + direction))
    IN IF st.search_matches = <<>>
       THEN Notify(st, "warning", "No search results.", 0)
       ELSE [st EXCEPT !.current_match_index = idx,
                       !.cursor_coordinate = st.search_matches[idx + 1]]

\* _navigate_search, had it stepped the match cursor without wrapping it.
_navigate_search_unwrapped(st, direction) ==
    LET num_matches == Len(st.search_matches)
        idx == st.current_match_index + direction
    IN IF st.search_matches = <<>>
       THEN Notify(st, "warning", "No search results.", 0)
       ELSE [st EXCEPT !.current_match_index = idx,
                       !.cursor_coordinate =
                           st.search_matches[((idx + num_matches) % num_matches) + 1]]

\* NlessApp._navigate_search
_navigate_search(st, direction) ==
    LET num_matches == Len(st.search_matches)
        idx == (st.current_match_index + direction + num_matches) % num_matches
    IN IF st.search_matches = <<>>
       THEN Notify(st, "warning", "No search results.", 0)
       ELSE [st EXCEPT !.current_match_index = idx,
                       !.cursor_coordinate = st.search_matches[idx + 1]]

\* NlessApp.action_next_search
action_next_search(st) == _navigate_search(st, 1)

\* NlessApp.action_previous_search
action_previous_search(st) == _navigate_search(st, -1)

\* action_sort, had a toggle on the column sorted descending gone back to
\* ascending.
action_sort_flipping(st, c) ==
    LET selected_column_name == _strip_column_indicators(st.columns[c])
        same == st.sort_column = Some(selected_column_name)
        s1 == IF same THEN [st EXCEPT !.sort_reverse = ~@]
              ELSE [st EXCEPT !.sort_column = Some(_strip_column_indicators(selected_column_name)),
                              !.sort_reverse = FALSE]
        relabel(label) ==
            LET bare == replace(replace(label, DescMark, <<>>), AscMark, <<>>)
            IN IF Some(_strip_column_indicators(label)) = s1.sort_column
               THEN bare \o (IF s1.sort_reverse THEN DescMark ELSE AscMark)
               ELSE bare
    IN _update_table([s1 EXCEPT !.columns = [i \in 1..Len(@) |-> relabel(@[i])]])

\* NlessApp.action_sort
action_sort(st, c) ==
    LET selected_column_name == _strip_column_indicators(st.columns[c])
        same == st.sort_column = Some(selected_column_name)
        s1 == IF same /\ st.sort_reverse THEN [st EXCEPT !.sort_column = None]
              ELSE IF same /\ ~st.sort_reverse THEN [st EXCEPT !.sort_reverse = TRUE]
              ELSE [st EXCEPT !.sort_column = Some(_strip_column_indicators(selected_column_name)),
                              !.sort_reverse = FALSE]
        relabel(label) ==
            LET bare == replace(replace(label, DescMark, <<>>), AscMark, <<>>)
            IN IF Some(_strip_column_indicators(label)) = s1.sort_column
               THEN bare \o (IF s1.sort_reverse THEN DescMark ELSE AscMark)
               ELSE bare
    IN _update_table([s1 EXCEPT !.columns = [i \in 1..Len(@) |-> relabel(@[i])]])

\* data_table.remove_column of the first column whose stripped label is "count"
RemoveCountColumn(cols) ==
    IF HasCountLabel(cols)
    THEN LET i == Val(_get_col_idx_by_name(cols, CountName)) + 1
         IN SubSeq(cols, 1, i - 1) \o SubSeq(cols, i + 1, Len(cols))
    ELSE cols

\* NlessApp.action_toggle_tail (the status bar is not modelled)
action_toggle_tail(st) == [st EXCEPT !.is_tailing = ~@]

\* NlessApp.action_mark_unique
action_mark_unique(st, c) ==
    LET curr_col_name == _strip_column_indicators(st.columns[c])
        member == curr_col_name \in st.unique_column_names
        names == IF member THEN st.unique_column_names \ {curr_col_name}
                 ELSE st.unique_column_names \cup {curr_col_name}
        label == IF member THEN replace(st.columns[c], UniqueMark, <<>>)
                 ELSE st.columns[c] \o UniqueMark
        cols == [st.columns EXCEPT ![c] = label]
    IN IF curr_col_name = CountName THEN st
       ELSE _update_table([st EXCEPT !.count_by_column_key = EmptyCounts,
                                     !.unique_column_names = names,
                                     !.columns = IF names = {} THEN RemoveCountColumn(cols)
                                                 ELSE cols])

\* NlessApp._perform_filter_any
_perform_filter_any(st, filter_value) ==
    _update_table(IF filter_value = EmptyStr
                  THEN [st EXCEPT !.current_filter = None, !.filter_column_name = None]
                  ELSE [st EXCEPT !.current_filter = Some(re_compile_escaped(filter_value)),
                                  !.filter_column_name = None])

\* _perform_filter, had it dropped the filter in force before compiling the
\* new pattern.
_perform_filter_clearing(st, filter_value, column_name) ==
    IF filter_value # EmptyStr /\ ~Compiles(filter_value)
    THEN Notify([st EXCEPT !.current_filter = None, !.filter_column_name = None],
                "error", "Invalid regex pattern", 0)
    ELSE _update_table(IF filter_value = EmptyStr
                       THEN [st EXCEPT !.current_filter = None, !.filter_column_name = None]
                       ELSE [st EXCEPT !.current_filter = Some(re_compile(filter_value)),
                                       !.filter_column_name = Some(column_name)])

\* NlessApp._perform_filter
_perform_filter(st, filter_value, column_name) ==
    IF filter_value # EmptyStr /\ ~Compiles(filter_value)
    THEN Notify(st, "error", "Invalid regex pattern", 0)
    ELSE _update_table(IF filter_value = EmptyStr
                       THEN [st EXCEPT !.current_filter = None, !.filter_column_name = None]
                       ELSE [st EXCEPT !.current_filter = Some(re_compile(filter_value)),
                                       !.filter_column_name = Some(column_name)])

\* NlessApp.handle_filter_submitted for the column prompt
handle_filter_submitted(st, filter_value, c) ==
    _perform_filter(st, filter_value, _strip_column_indicators(st.columns[c]))

\* FirstMatch, had it navigated backwards from the reset cursor.
FirstMatchBackwards(st) ==
    IF st.fault = "none" /\ st.search_matches # <<>> THEN _navigate_search(st, -1) ELSE st

\* if self.search_matches: self._navigate_search(1) (cli.py 612-613)
FirstMatch(st) ==
    IF st.fault = "none" /\ st.search_matches # <<>> THEN _navigate_search(st, 1) ELSE st

\* NlessApp._perform_search
_perform_search(st, term) ==
    IF term # EmptyStr /\ ~Compiles(term)
    THEN Notify(st, "error", "Invalid regex pattern", 0)
    ELSE FirstMatch(_update_table(
                        [st EXCEPT !.search_term = IF term # EmptyStr
                                                   THEN Some(re_compile(term)) ELSE None]))

\* NlessApp.action_search_to_filter
action_search_to_filter(st) ==
    IF st.search_term = None
    THEN Notify(st, "warning", "No active search to convert to filter", 0)
    ELSE _update_table([st EXCEPT !.current_filter = st.search_term,
                                  !.filter_column_name = None])

\* The delimiters handle_delimiter_submitted takes literally (cli.py 295-303);
\* "\\t" is the two characters backslash and t.
CommonDelimiters ==
    {<<",">>, <<"\\", "t">>, <<" ">>, <<" ", " ">>, <<"|">>, <<";">>, Raw}

\* The bare except of the regex branch (cli.py 315-317) also catches what
\* _update_table raises.
Caught(st) ==
    IF st.fault # "none" THEN Notify(Raise(st, "none"), "error", "Invalid delimiter", 0)
    ELSE st

\* NlessApp.handle_delimiter_submitted.  A regex the model submits has no named
\* group, so pattern.groupindex is empty.
handle_delimiter_submitted(st, value) ==
    LET s0 == [st EXCEPT !.current_filter = None, !.filter_column_name = None,
                         !.search_term = None, !.sort_column = None,
                         !.unique_column_names = {}]
        prev_delimiter == st.delimiter
        prev_plain == ~IsRaw(prev_delimiter) /\ ~IsPattern(prev_delimiter)
        \* the regex branch (cli.py 304-317)
        p1 == [s0 EXCEPT !.delimiter = Some(ReDelim(value)),
                         !.columns = <<>>,
                         !.raw_rows = IF prev_plain THEN <<st.raw_header>> \o @ ELSE @]
        \* the literal branch (cli.py 319-341)
        d == Some(StrDelim(IF value = <<"\\", "t">> THEN <<"\t">> ELSE value))
        s1 == [s0 EXCEPT !.delimiter = d]
        from_raw == ~IsRaw(d) /\ ~prev_plain
        new_header == IF IsRaw(d) THEN <<LogName>>
                      ELSE IF from_raw THEN split_line(s1.raw_rows[1], d)
                      ELSE split_line(s1.raw_header, d)
        rows1 == IF from_raw THEN Tail(s1.raw_rows) ELSE s1.raw_rows
        rows2 == IF prev_delimiter # d /\ prev_plain /\ IsRaw(d)
                 THEN <<s1.raw_header>> \o rows1 ELSE rows1
    IN IF value \notin CommonDelimiters
       THEN IF ~Compiles(value) THEN Notify(s0, "error", "Invalid delimiter", 0)
            ELSE Caught(_update_table(p1))
       ELSE IF from_raw /\ s1.raw_rows = <<>> THEN Raise(s1, "IndexError")
       ELSE _update_table([s1 EXCEPT !.raw_rows = rows2, !.columns = new_header])

(***************************************************************************)
(* Inputs.  The first line ever ingested is a header line; the other lines *)
(* are data lines.  The user gives commands once the first batch is shown. *)
(***************************************************************************)
Headers == {<<"k", ",", "v">>, <<"c", "o", "u", "n", "t", ",", "v">>, <<"1">>}

Lines ==
    {<<"2", ",", "a">>, <<"1", "0", ",", "a">>, <<"a", ",", "1">>, <<"1">>}

\* What the user types into a filter or search prompt ("" clears).
Patterns == {<<"1">>, <<"(">>, EmptyStr}

\* What the user types into the delimiter prompt.
DelimiterInputs == {Comma, Raw, <<"(">>}

RECURSIVE SeqsOf(_, _)
SeqsOf(S, n) ==
    IF n = 0 THEN {<<>>}
    ELSE {<<>>} \cup {<<x>> \o t : x \in S, t \in SeqsOf(S, n - 1)}

\* The batches add_logs may be handed now.
Batches ==
    LET room == Min(MaxBatch, MaxLines - Len(ingested))
    IN IF ingested = <<>>
       THEN {<<h>> \o t : h \in Headers, t \in SeqsOf(Lines, room - 1)}
       ELSE SeqsOf(Lines, room) \ {<<>>}

Running == fault = "none"
Ready == Running /\ data_initalized /\ commands < MaxCommands
\* A handler starts on the UI loop (app.run(), cli.py 854) ...
Begin ==
    [Self EXCEPT !.notice = NoNotice, !.rebuilt = FALSE, !.thread = "ui", !.table_calls = <<>>,
                 !.handed = None]
\* ... except add_logs, which InputConsumer.run calls on its own thread
\* (Thread(target=ic.run), cli.py 839-851).
Ingest == [Begin EXCEPT !.thread = "ingestion"]

\* NlessApp.on_mount
OnMount ==
    /\ ~mounted
    /\ mounted' = TRUE
    /\ UNCHANGED <<raw_rows, raw_header, displayed_rows, columns, delimiter, current_filter,
                   filter_column_name, search_term, sort_column, sort_reverse,
                   unique_column_names, count_by_column_key, search_matches,
                   current_match_index, cursor_coordinate, first_row_parsed,
                   data_initalized, is_tailing, table_calls, handed, notice, rebuilt,
                   fault, thread, pending, ingested, commands, built>>

\* InputConsumer.handle_input
handle_input(st, line) ==
    add_logs([st EXCEPT !.ingested = @ \o line, !.handed = Some(line)], line)

\* One iteration of InputConsumer.run, had it not waited for the app to be
\* mounted.
run_unmounted(lines) ==
    IF Len(lines) > 0 THEN Commit(handle_input(Ingest, lines))
    ELSE UNCHANGED vars

\* One iteration of the loop of InputConsumer.run, in which readlines()
\* returns lines.
run(lines) ==
    IF mounted /\ Len(lines) > 0 THEN Commit(handle_input(Ingest, lines))
    ELSE UNCHANGED vars

Init ==
    /\ raw_rows = <<>>
    /\ raw_header = EmptyStr
    /\ displayed_rows = <<>>
    /\ columns = <<>>
    /\ delimiter = None
    /\ current_filter = None
    /\ filter_column_name = None
    /\ search_term = None
    /\ sort_column = None
    /\ sort_reverse = FALSE
    /\ unique_column_names = {}
    /\ count_by_column_key = EmptyCounts
    /\ search_matches = <<>>
    /\ current_match_index = -1
    /\ cursor_coordinate = <<0, 0>>
    /\ first_row_parsed = FALSE
    /\ data_initalized = FALSE
    /\ is_tailing = FALSE
    /\ mounted = FALSE
    /\ handed = None
    /\ table_calls = <<>>
    /\ notice = NoNotice
    /\ rebuilt = FALSE
    /\ fault = "none"
    /\ thread = "ui"
    /\ pending = <<>>
    /\ ingested = <<>>
    /\ commands = 0
    /\ built = None

AddLogs ==
    /\ Running
    /\ \E log_lines \in Batches :
           run(log_lines)

Sort ==
    /\ Ready
    /\ \E c \in 1..Len(columns) : Commit(action_sort(Begin, c))

MarkUnique ==
    /\ Ready
    /\ \E c \in 1..Len(columns) : Commit(action_mark_unique(Begin, c))

Filter ==
    /\ Ready
    /\ \E c \in 1..Len(columns), p \in Patterns : Commit(handle_filter_submitted(Begin, p, c))

FilterAny ==
    /\ Ready
    /\ \E p \in Patterns : Commit(_perform_filter_any(Begin, p))

Search ==
    /\ Ready
    /\ \E p \in Patterns : Commit(_perform_search(Begin, p))

NextSearch ==
    /\ Ready
    /\ Commit(action_next_search(Begin))

PreviousSearch ==
    /\ Ready
    /\ Commit(action_previous_search(Begin))

SearchToFilter ==
    /\ Ready
    /\ Commit(action_search_to_filter(Begin))

Delimiter ==
    /\ Ready
    /\ \E value \in DelimiterInputs : Commit(handle_delimiter_submitted(Begin, value))

Next ==
    \/ OnMount
    \/ AddLogs
    \/ Sort
    \/ MarkUnique
    \/ Filter
    \/ FilterAny
    \/ Search
    \/ NextSearch
    \/ PreviousSearch
    \/ SearchToFilter
    \/ Delimiter

Spec == Init /\ [][Next]_vars

(***************************************************************************)
(* The two threads.  add_logs runs on the ingestion thread while the UI    *)
(* loop runs the user's commands, and nothing orders the two: a command    *)
(* may run between the extend of raw_rows and the loop over the batch, and *)
(* between two iterations of the loop.  The first batch is shown before    *)
(* the user gives a command.                                               *)
(***************************************************************************)
\* add_logs of the first batch.
FirstBatch ==
    /\ ~data_initalized
    /\ AddLogs

\* add_logs of a later batch, up to and including the extend of raw_rows.
Extend ==
    /\ Running /\ mounted /\ data_initalized /\ pending = <<>>
    /\ \E log_lines \in Batches :
           Commit(Extended([Ingest EXCEPT !.ingested = @ \o log_lines,
                                          !.handed = Some(log_lines)],
                           log_lines, delimiter))

\* One iteration of add_logs' loop: self._add_log_line(line).
AddLine ==
    /\ Running /\ pending # <<>>
    /\ Commit(_add_log_line([Self EXCEPT !.pending = Tail(@), !.rebuilt = FALSE,
                                         !.thread = "ingestion", !.table_calls = <<>>],
                            Head(pending)))

NextThreads ==
    \/ OnMount
    \/ FirstBatch
    \/ Extend
    \/ AddLine
    \/ Sort
    \/ MarkUnique

SpecThreads == Init /\ [][NextThreads]_vars

(***************************************************************************)
(* Runs of one kind of command, longer than the runs of Spec.              *)
(***************************************************************************)
\* action_sort in a run of toggle-sort commands.
ToggleSort ==
    /\ Running /\ data_initalized /\ commands < MaxSorts
    /\ \E c \in 1..Len(columns) : Commit(action_sort(Begin, c))

NextSort ==
    \/ OnMount
    \/ AddLogs
    \/ ToggleSort

SpecSort == Init /\ [][NextSort]_vars

\* action_mark_unique in a run of toggle-unique commands.
ToggleUnique ==
    /\ Running /\ data_initalized /\ commands < MaxToggles
    /\ \E c \in 1..Len(columns) : Commit(action_mark_unique(Begin, c))

NextUnique ==
    \/ OnMount
    \/ AddLogs
    \/ ToggleUnique

SpecUnique == Init /\ [][NextUnique]_vars

(***************************************************************************)
(* First batches of every shape, for the inference of the delimiter.       *)
(***************************************************************************)
\* Lines drawn character by character, and one line for each of the other
\* candidate delimiters.
SampleLines ==
    (SeqsOf({"a", ",", " "}, MaxLineLen) \ {<<>>})
        \cup {<<"a", "\t", "a">>, <<"a", "|", "a">>, <<"a", ";", "a">>}

\* Batches longer than the sample add_logs takes (log_lines[:5]).
LongBatches ==
    {b \in SeqsOf({<<"a">>, <<"a", ",", "a">>}, SampleSize + 1) : Len(b) = SampleSize + 1}

\* add_logs on the first batch of a run.
FirstSample ==
    /\ Running /\ ingested = <<>>
    /\ \E log_lines \in (SeqsOf(SampleLines, MaxSampleLines) \ {<<>>}) \cup LongBatches :
           run(log_lines)

NextInfer ==
    \/ OnMount
    \/ FirstSample

SpecInfer == Init /\ [][NextInfer]_vars

\* handle_delimiter_submitted on such a first batch.
Resplit ==
    /\ Running /\ data_initalized /\ commands < MaxResplits
    /\ \E value \in {Comma, Space, Raw} : Commit(handle_delimiter_submitted(Begin, value))

NextSplit ==
    \/ OnMount
    \/ FirstSample
    \/ Resplit

SpecSplit == Init /\ [][NextSplit]_vars

\* A run of mark-unique and search commands and a search-to-filter.
Step ==
    /\ Running /\ data_initalized /\ commands < MaxSteps
    /\ \/ \E c \in 1..Len(columns) : Commit(action_mark_unique(Begin, c))
       \/ \E p \in Patterns : Commit(_perform_search(Begin, p))
       \/ Commit(action_search_to_filter(Begin))

NextSteps ==
    \/ OnMount
    \/ AddLogs
    \/ Step

SpecSteps == Init /\ [][NextSteps]_vars

\* action_toggle_tail, which the user may give at any time.
ToggleTail ==
    /\ Running /\ mounted /\ commands < MaxCommands
    /\ Commit(action_toggle_tail(Begin))

\* Tailing, with the commands that make _add_log_line drop or replace rows.
NextTail ==
    \/ OnMount
    \/ AddLogs
    \/ ToggleTail
    \/ FilterAny
    \/ MarkUnique

SpecTail == Init /\ [][NextTail]_vars

(***************************************************************************)
(* Lines of one numeric value each: no delimiter is inferred, the lines    *)
(* are the rows of the one column "log".                                   *)
(***************************************************************************)
Numbers == {<<"1">>, <<"2">>, <<"3">>, <<"1", "0">>}

\* add_logs on a first batch of values.
FirstNumbers ==
    /\ Running /\ ingested = <<>>
    /\ \E log_lines \in SeqsOf(Numbers, Min(MaxBatch, MaxNumbers)) \ {<<>>} :
           run(log_lines)

\* add_logs on one more value.
OneNumber ==
    /\ Running /\ data_initalized /\ Len(ingested) < MaxNumbers
    /\ \E v \in Numbers :
           run(<<v>>)

NextNumbers ==
    \/ OnMount
    \/ FirstNumbers
    \/ ToggleSort
    \/ OneNumber

SpecNumbers == Init /\ [][NextNumbers]_vars

\* The same lines between toggle-unique commands.
NextKeys ==
    \/ OnMount
    \/ FirstNumbers
    \/ ToggleUnique
    \/ OneNumber

SpecKeys == Init /\ [][NextKeys]_vars

\* The loop of InputConsumer.run: readlines() may return no line.
Read ==
    /\ Running
    /\ \E lines \in Batches \cup {<<>>} : run(lines)

NextConsumer ==
    \/ OnMount
    \/ Read

SpecConsumer == Init /\ [][NextConsumer]_vars

(***************************************************************************)
(* Lines of two fields split by "|", whose values may hold a comma.        *)
(***************************************************************************)
PipeHeader == <<"k", "|", "v">>
PipeLines == {<<"a", ",", "b", "|", "c">>, <<"a", "|", "b", ",", "c">>, <<"a", "|", "c">>}

\* add_logs on the first batch: the header line and at most one line more.
FirstPipes ==
    /\ Running /\ ingested = <<>>
    /\ \E log_lines \in {<<PipeHeader>> \o t : t \in SeqsOf(PipeLines, MaxBatch - 1)} :
           run(log_lines)

\* add_logs on one more line.
OnePipe ==
    /\ Running /\ data_initalized /\ Len(ingested) < MaxLines
    /\ \E line \in PipeLines :
           run(<<line>>)

NextPipes ==
    \/ OnMount
    \/ FirstPipes
    \/ ToggleUnique
    \/ OnePipe

SpecPipes == Init /\ [][NextPipes]_vars

(***************************************************************************)
(* Properties.                                                             *)
(***************************************************************************)
\* The view a rebuild would compute now from the raw store and the specs.
Rebuilt == _update_table(Self)

\* The view is the result of a rebuild under the specs in force, followed by
\* zero or more appends.
ViewCurrent == Running /\ data_initalized /\ built = Some(SpecOf(Self))

\* C1: the rows reached by a rebuild followed by appends, with the specs
\* unchanged, are in values and in order the rows one rebuild over the whole
\* raw store produces.
RebuildAppendEquivalence ==
    (ViewCurrent /\ Rebuilt.fault = "none")
        => PlainRows(displayed_rows) = PlainRows(Rebuilt.displayed_rows)

\* The last handler notified the user of an error with this text.
ErrorShown(text) ==
    \E i \in 1..Len(notice) : notice[i].severity = "error" /\ notice[i].text = text

\* The number of skipped rows the last handler warned of (0 when it did not).
SkippedShown ==
    LET S == {i \in 1..Len(notice) : notice[i].text = "rows not matching columns, skipped"}
    IN IF S = {} THEN 0 ELSE notice[CHOOSE i \in S : TRUE].n

\* The header's field names and a line's fields under the delimiter in force.
HeaderFields == IF IsRaw(delimiter) THEN <<LogName>> ELSE split_line(raw_header, delimiter)
Fields(line) == split_line(line, delimiter)
WellFormed(line) == Len(Fields(line)) = Len(HeaderFields)
HeaderPos(name) ==
    IF \E i \in 1..Len(HeaderFields) : HeaderFields[i] = name
    THEN CHOOSE i \in 1..Len(HeaderFields) :
             HeaderFields[i] = name /\ \A j \in 1..(i - 1) : HeaderFields[j] # name
    ELSE 0

\* The filter is off, or over any column, or over a column of the header.
FilterScoped ==
    current_filter = None \/ filter_column_name = None \/ HeaderPos(Val(filter_column_name)) > 0

\* A well-formed line's fields pass the filter in force.
Passes(fields) ==
    \/ current_filter = None
    \/ /\ current_filter # None /\ filter_column_name = None
       /\ \E i \in 1..Len(fields) : re_search(Val(current_filter), fields[i])
    \/ /\ current_filter # None /\ filter_column_name # None
       /\ re_search(Val(current_filter), fields[HeaderPos(Val(filter_column_name))])

\* The raw store's lines (by position) that are well-formed and pass the filter.
Admitted == {n \in 1..Len(raw_rows) : WellFormed(raw_rows[n]) /\ Passes(Fields(raw_rows[n]))}

\* Deduplication is on, over columns of the header.
Deduplicating ==
    /\ unique_column_names # {}
    /\ \A name \in unique_column_names : HeaderPos(name) > 0

\* The data values a display row shows (without the count in front of a
\* deduplicated row), and the key of a sequence of data values.
DataOf(row) == IF unique_column_names # {} THEN PlainRow(Tail(row)) ELSE PlainRow(row)
KeyOf(fields) == [name \in unique_column_names |-> fields[HeaderPos(name)]]
WithKey(key) == {n \in Admitted : KeyOf(Fields(raw_rows[n])) = key}

\* The sort column's position in a display row, a row's value there, and the
\* raw store's lines (by position) a row shows the fields of.
SortPos == Val(_get_col_idx_by_name(columns, Val(sort_column))) + 1
SortValue(row) == Plain(row[SortPos])
Arrivals(row) == {n \in 1..Len(raw_rows) : Fields(raw_rows[n]) = DataOf(row)}

\* C2: with a sort column, the display rows are ordered by the string value of
\* that column (reversed when descending), ties in arrival order.
SortOrderInvariant ==
    (Running /\ data_initalized /\ sort_column # None
       /\ _get_col_idx_by_name(columns, Val(sort_column)) # None)
    => \A i, j \in 1..Len(displayed_rows) :
           i < j =>
             LET a == displayed_rows[i]
                 b == displayed_rows[j]
             IN /\ IF sort_reverse THEN ~StrLess(SortValue(a), SortValue(b))
                                   ELSE ~StrLess(SortValue(b), SortValue(a))
                /\ (SortValue(a) = SortValue(b) /\ Arrivals(a) # {} /\ Arrivals(b) # {})
                      => \E m \in Arrivals(a), n \in Arrivals(b) : m <= n

\* C3: while deduplicating, no two display rows have the same key, and each
\* row shows the fields of the most recent line with its key that passes the
\* filter.
DedupInvariant ==
    (Running /\ data_initalized /\ Deduplicating /\ FilterScoped)
    => /\ \A i, j \in 1..Len(displayed_rows) :
              (i # j /\ Len(displayed_rows[i]) = Len(HeaderFields) + 1
                     /\ Len(displayed_rows[j]) = Len(HeaderFields) + 1)
              => KeyOf(DataOf(displayed_rows[i])) # KeyOf(DataOf(displayed_rows[j]))
       /\ \A i \in 1..Len(displayed_rows) :
              LET data == DataOf(displayed_rows[i])
              IN /\ Len(data) = Len(HeaderFields)
                 /\ \E n \in WithKey(KeyOf(data)) :
                        /\ Fields(raw_rows[n]) = data
                        /\ \A m \in WithKey(KeyOf(data)) : m <= n

\* C4: while deduplicating, a display row's count is the number of lines of the
\* raw store with its key that pass the filter.
DedupCountInvariant ==
    (Running /\ data_initalized /\ Deduplicating /\ FilterScoped)
    => \A i \in 1..Len(displayed_rows) :
           LET data == DataOf(displayed_rows[i])
           IN Len(data) = Len(HeaderFields)
                 => Plain(displayed_rows[i][1]) = str(Cardinality(WithKey(KeyOf(data))))

\* C5: after a rebuild every display row has as many fields as the header, and
\* a line is left out and counted as malformed iff its field count differs.
FieldCountInvariant ==
    (Running /\ data_initalized /\ rebuilt)
    => /\ \A i \in 1..Len(displayed_rows) :
              Len(DataOf(displayed_rows[i])) = Len(HeaderFields)
       /\ SkippedShown = Cardinality({n \in 1..Len(raw_rows) : ~WellFormed(raw_rows[n])})
       /\ (current_filter = None /\ unique_column_names = {})
              => Len(displayed_rows)
                   = Cardinality({n \in 1..Len(raw_rows) : WellFormed(raw_rows[n])})

IsPrefix(s, t) == Len(s) <= Len(t) /\ SubSeq(t, 1, Len(s)) = s

\* C6: the raw store only grows at its end: no command, change-delimiter
\* among them, removes, reorders or rewrites its lines.
RawRowsAppendOnly == [][IsPrefix(raw_rows, raw_rows')]_vars

\* The Coordinates (0-based row and column) of the display cells whose value
\* matches the search term.
MatchingCells ==
    UNION {{<<r - 1, c - 1>> : c \in {c \in 1..Len(displayed_rows[r]) :
                                         re_search(Val(search_term),
                                                   Plain(displayed_rows[r][c]))}} :
           r \in 1..Len(displayed_rows)}

\* C7: with a search term, search_matches holds exactly the positions of the
\* display cells whose value matches the term.
MatchIndexInvariant ==
    (Running /\ data_initalized /\ search_term # None)
    => {search_matches[i] : i \in 1..Len(search_matches)} = MatchingCells

\* C8: a command that changes a spec is followed by a rebuild before any
\* append: lines are only ever appended to a view built under the specs in
\* force.
RebuildBeforeAppend ==
    [][(data_initalized /\ ingested' # ingested) => built = Some(SpecOf(Self))]_vars

\* The step of a filter or search prompt given a pattern that does not compile.
InvalidPatternStep ==
    \E p \in Patterns :
        /\ p # EmptyStr /\ ~Compiles(p)
        /\ \/ \E c \in 1..Len(columns) : Commit(handle_filter_submitted(Begin, p, c))
           \/ Commit(_perform_search(Begin, p))

\* C9: when a filter or search pattern fails to compile, the previous filter
\* and search, every other spec, the display rows and the match index stay as
\* they were, as does the cursor, the error is shown and no rebuild happens.
InvalidPatternRejected ==
    [][InvalidPatternStep =>
          /\ UNCHANGED <<current_filter, filter_column_name, search_term, sort_column,
                         sort_reverse, unique_column_names, delimiter, columns,
                         raw_rows, displayed_rows, search_matches,
                         current_match_index, cursor_coordinate,
                         count_by_column_key, built>>
          /\ ErrorShown("Invalid regex pattern")'
          /\ ~rebuilt']_vars

\* A pattern has just been rejected while a filter was in force over rows on
\* display.
InvalidPatternSeen ==
    /\ Running /\ ErrorShown("Invalid regex pattern")
    /\ current_filter # None /\ displayed_rows # <<>>

\* The step of a delimiter prompt given a pattern that does not compile.
InvalidDelimiterStep ==
    \E value \in DelimiterInputs :
        /\ value \notin CommonDelimiters /\ ~Compiles(value)
        /\ Commit(handle_delimiter_submitted(Begin, value))

\* C10: when the delimiter pattern fails to compile, the previous delimiter,
\* filter, search, sort and unique keys and the raw store stay as they were.
InvalidDelimiterRetains ==
    [][InvalidDelimiterStep =>
          UNCHANGED <<delimiter, current_filter, filter_column_name, search_term,
                      sort_column, unique_column_names, raw_rows>>]_vars

\* C11: the ingestion thread never mutates the raw store, the display rows,
\* the dedup counts or the match index itself: every step that changes one
\* of them is taken on the UI loop.
ViewOwnedByUiLoop ==
    [][(\/ raw_rows' # raw_rows
        \/ displayed_rows' # displayed_rows
        \/ count_by_column_key' # count_by_column_key
        \/ search_matches' # search_matches) => thread' = "ui"]_vars

\* How many of the rows are the row r.
Occurrences(rows, r) == Cardinality({i \in DOMAIN rows : rows[i] = r})

\* The two lists hold the same rows the same number of times.
SameRows(a, b) ==
    /\ Len(a) = Len(b)
    /\ \A i \in DOMAIN a : Occurrences(a, a[i]) = Occurrences(b, a[i])

\* C12: however the steps of a batch's add_logs interleave with commands that
\* rebuild the view, once the batch is through the display shows what a
\* rebuild over the raw store shows: every line once (and counted once in a
\* dedup count), none missing.
InterleavedBatchConsistent ==
    (Running /\ data_initalized /\ pending = <<>> /\ Rebuilt.fault = "none")
        => SameRows(PlainRows(displayed_rows), PlainRows(Rebuilt.displayed_rows))

\* The lines handed to add_logs in this step, and those of them that belong
\* in the raw store: all but the header line, which is the first line ever
\* handed over when the delimiter splits.
Arrived == SubSeq(ingested', Len(ingested) + 1, Len(ingested'))
Stored == IF ingested = <<>> /\ Arrived # <<>> /\ ~IsRaw(delimiter') THEN Tail(Arrived) ELSE Arrived

\* C13: as long as the delimiter is not changed, the raw store is the lines
\* handed over, in arrival order, less the header line under a splitting
\* delimiter: a step that leaves the delimiter as it is (or sets it for the
\* first batch) appends the lines it is handed, all of them, once and in
\* order, and changes nothing else of the raw store.
RawStoreKeepsArrivals ==
    [][(delimiter' = delimiter \/ delimiter = None) => raw_rows' = raw_rows \o Stored]_vars

\* Two batches have arrived around a command under a splitting delimiter, and
\* the raw store holds every line but the header.
ArrivalsStored ==
    /\ Running /\ ~IsRaw(delimiter) /\ commands > 0
    /\ Len(ingested) = MaxLines /\ raw_rows = Tail(ingested)
    /\ \E i, j \in DOMAIN raw_rows : raw_rows[i] # raw_rows[j]

\* The match cursor and the cell it focuses.
MatchCursor(st) == <<st.current_match_index, st.cursor_coordinate>>

\* The cursor is on a match.
OnMatch ==
    /\ Running /\ search_matches # <<>>
    /\ current_match_index \in 0..(Len(search_matches) - 1)
    /\ cursor_coordinate = search_matches[current_match_index + 1]

\* k consecutive Next() from st.
RECURSIVE NextTimes(_, _)
NextTimes(st, k) == IF k = 0 THEN st ELSE NextTimes(action_next_search(st), k - 1)

\* C14: with n >= 1 matches and the cursor on a match, n times Next() comes
\* back to the same match, Next() from the last match goes to the first,
\* Previous() from the first goes to the last, and Next() then Previous()
\* leaves the cursor where it was.
NavigationWraps ==
    OnMatch =>
        LET n == Len(search_matches)
        IN /\ MatchCursor(NextTimes(Self, n)) = MatchCursor(Self)
           /\ current_match_index = n - 1
                 => MatchCursor(action_next_search(Self)) = <<0, search_matches[1]>>
           /\ current_match_index = 0
                 => MatchCursor(action_previous_search(Self)) = <<n - 1, search_matches[n]>>
           /\ MatchCursor(action_previous_search(action_next_search(Self))) = MatchCursor(Self)

\* A navigation command has left the cursor on the last of several matches
\* at different cells.
NavigatedToLast ==
    /\ OnMatch /\ thread = "ui" /\ ~rebuilt /\ notice = NoNotice
    /\ Len(search_matches) > 1 /\ current_match_index = Len(search_matches) - 1
    /\ search_matches[1] # search_matches[Len(search_matches)]

\* The last handler notified the user of a warning with this text.
WarningShown(text) ==
    \E i \in 1..Len(notice) : notice[i].severity = "warning" /\ notice[i].text = text

\* The step of a Next() or a Previous() given while the match index is empty.
EmptyNavigationStep ==
    /\ search_matches = <<>>
    /\ Commit(action_next_search(Begin)) \/ Commit(action_previous_search(Begin))

\* C15: Next() and Previous() with no match report a warning and change
\* nothing: the match cursor stays at -1, and the table cursor, the display
\* rows and the specs stay as they were.
EmptyNavigationInert ==
    [][EmptyNavigationStep =>
          /\ WarningShown("No search results.")'
          /\ current_match_index = -1 /\ current_match_index' = -1
          /\ UNCHANGED <<cursor_coordinate, displayed_rows, search_matches,
                         delimiter, current_filter, filter_column_name, search_term,
                         sort_column, sort_reverse, unique_column_names, columns,
                         raw_rows, count_by_column_key, built>>
          /\ ~rebuilt']_vars

\* A navigation has just been refused while a search without a match was in
\* force over rows on display.
EmptyNavigationSeen ==
    /\ Running /\ WarningShown("No search results.")
    /\ search_term # None /\ displayed_rows # <<>> /\ search_matches = <<>>

\* The step of a search prompt given a term that compiles, or no term.
SearchStep ==
    \E p \in Patterns :
        /\ p = EmptyStr \/ Compiles(p)
        /\ Commit(_perform_search(Begin, p))

\* The Coordinates of the cells of rows whose value matches term.
MatchingCellsOf(rows, term) ==
    UNION {{<<r - 1, c - 1>> : c \in {c \in 1..Len(rows[r]) :
                                         re_search(Val(term), Plain(rows[r][c]))}} :
           r \in 1..Len(rows)}

\* m is the first of the Coordinates in display order: row by row, and left
\* to right in a row.
FirstInDisplayOrder(m, cells) ==
    /\ m \in cells
    /\ \A x \in cells : m[1] < x[1] \/ (m[1] = x[1] /\ m[2] <= x[2])

\* C16: right after a search term is applied, if the rebuilt match index is
\* not empty the match cursor is 0 and the focused cell is the first match in
\* display order; if it is empty the match cursor is -1 and the table cursor
\* has not moved.
SearchFocusesFirstMatch ==
    [][(SearchStep /\ rebuilt') =>
          IF search_matches' # <<>>
          THEN /\ current_match_index' = 0
               /\ cursor_coordinate' = search_matches'[1]
               /\ FirstInDisplayOrder(cursor_coordinate',
                                      MatchingCellsOf(displayed_rows', search_term'))
          ELSE /\ current_match_index' = -1
               /\ cursor_coordinate' = cursor_coordinate]_vars

\* A search has just focused the first of several matches, which is not the
\* table's first cell.
FirstMatchFocused ==
    /\ Running /\ rebuilt /\ search_term # None /\ current_match_index = 0
    /\ Len(search_matches) > 1 /\ cursor_coordinate = search_matches[1]
    /\ cursor_coordinate # <<0, 0>>

\* C17: toggle-sort on the sorted column goes from ascending to descending,
\* from descending to unsorted, and from unsorted back to ascending;
\* toggle-sort on any other column gives that column ascending, whatever
\* column and direction were in force.
SortCycle ==
    [][\A c \in 1..Len(columns) :
          Commit(action_sort(Begin, c)) =>
              LET name == HeaderFields[c]
              IN IF sort_column = Some(name) /\ ~sort_reverse
                 THEN sort_column' = Some(name) /\ sort_reverse'
                 ELSE IF sort_column = Some(name) /\ sort_reverse
                 THEN sort_column' = None
                 ELSE sort_column' = Some(name) /\ ~sort_reverse']_vars

\* Four toggles on the only column of an unsplit view: ascending, descending,
\* unsorted, and ascending again.
SortCycleClosed ==
    /\ Running /\ IsRaw(delimiter) /\ Len(raw_rows) > 1 /\ commands = 4
    /\ sort_column = Some(LogName) /\ ~sort_reverse

\* The display rows (by position) that show the well-formed line at position
\* n of the raw store: its fields, or its key when deduplicating; and the
\* admitted lines shown by the same rows.
RowsShowing(n) ==
    {i \in 1..Len(displayed_rows) :
        IF unique_column_names = {}
        THEN DataOf(displayed_rows[i]) = Fields(raw_rows[n])
        ELSE /\ Len(displayed_rows[i]) = Len(HeaderFields) + 1
             /\ KeyOf(DataOf(displayed_rows[i])) = KeyOf(Fields(raw_rows[n]))}
AdmittedLike(n) ==
    {m \in Admitted :
        IF unique_column_names = {} THEN Fields(raw_rows[m]) = Fields(raw_rows[n])
        ELSE KeyOf(Fields(raw_rows[m])) = KeyOf(Fields(raw_rows[n]))}

\* C18: a rebuild keeps a well-formed line iff there is no filter, or the
\* any-column filter matches one of its fields, or the filter on column X
\* matches its field in column X, with or without deduplication: without,
\* a line is shown as often as it was admitted; with, a line's key is shown
\* (once) iff a line of that key was admitted.
RebuildFilters ==
    (Running /\ data_initalized /\ rebuilt /\ FilterScoped
       /\ (unique_column_names = {} \/ Deduplicating))
    => \A n \in 1..Len(raw_rows) :
           WellFormed(raw_rows[n]) =>
               Cardinality(RowsShowing(n)) =
                   IF unique_column_names = {} THEN Cardinality(AdmittedLike(n))
                   ELSE IF AdmittedLike(n) = {} THEN 0 ELSE 1

\* The names the column labels show, without their indicators.
ColumnNames == [i \in 1..Len(columns) |-> _strip_column_indicators(columns[i])]

\* The view has the synthetic count column, once, in front of the header's
\* columns; the view has the header's columns only.
CountColumnLeads == ColumnNames = <<CountName>> \o HeaderFields
CountColumnAbsent == ColumnNames = HeaderFields

\* The cursor's column c is the synthetic count column.
OnCountColumn(c) == unique_column_names # {} /\ c = 1

\* C19: after any sequence of toggle-unique commands the synthetic count
\* column is in the view, once and in front, iff the set of unique keys is
\* not empty; a toggle adds the column to the set when it is not in it and
\* removes it when it is, and a toggle on the count column changes nothing.
CountColumnTracksUniqueKeys ==
    /\ [](Running /\ data_initalized =>
             IF unique_column_names # {} THEN CountColumnLeads ELSE CountColumnAbsent)
    /\ [][\A c \in 1..Len(columns) :
             Commit(action_mark_unique(Begin, c)) =>
                 IF OnCountColumn(c)
                 THEN UNCHANGED <<unique_column_names, columns, displayed_rows>>
                 ELSE unique_column_names' =
                          IF ColumnNames[c] \in unique_column_names
                          THEN unique_column_names \ {ColumnNames[c]}
                          ELSE unique_column_names \cup {ColumnNames[c]}]_vars

\* The rows a list of lines gives when each is split by d and those as wide
\* as the header are kept.
RECURSIVE SplitRows(_, _, _)
SplitRows(lines, d, width) ==
    IF lines = <<>> THEN <<>>
    ELSE LET cells == split_line(lines[1], d)
         IN (IF Len(cells) = width THEN <<cells>> ELSE <<>>)
                \o SplitRows(Tail(lines), d, width)

\* Every line as one single-field row.
WholeLines(lines) == [i \in 1..Len(lines) |-> <<lines[i]>>]

\* C20: a change-delimiter command that succeeds clears the filter, the
\* search, the sort and the unique keys and splits the header line and every
\* raw line anew; given "raw" it shows every ingested line, the header line
\* among them, as one single-field row under a single column.
DelimiterResplits ==
    [][\A value \in DelimiterInputs \cap CommonDelimiters :
          (Commit(handle_delimiter_submitted(Begin, value)) /\ fault' = "none") =>
              /\ current_filter' = None /\ filter_column_name' = None
              /\ search_term' = None /\ sort_column' = None
              /\ unique_column_names' = {}
              /\ IF value = Raw
                 THEN /\ columns' = <<LogName>>
                      /\ PlainRows(displayed_rows') = WholeLines(ingested)
                 ELSE /\ columns' = split_line(ingested[1], delimiter')
                      /\ PlainRows(displayed_rows') =
                             SplitRows(Tail(ingested), delimiter', Len(columns'))]_vars

\* C21: a rebuild and an append always complete: whatever the raw store and
\* the valid specs in force, no handler ends in an exception.
NeverFaults == fault = "none"

\* The lines add_logs samples from the first batch (log_lines[:5]).
Sample == SubSeq(ingested, 1, Min(SampleSize, Len(ingested)))

\* The candidate's total score over the sample.
Total(c) == Score(Sample, c, 1)

CandidateSet == {Candidates[i] : i \in 1..Len(Candidates)}

CountOf(line, c) == Cardinality({i \in 1..Len(line) : line[i] = c})

\* The line without its whitespace.
Unspaced(line) == SelectSeq(line, LAMBDA c : ~IsBlank(c))

RECURSIVE Flat(_)
Flat(parts) == IF parts = <<>> THEN <<>> ELSE parts[1] \o Flat(Tail(parts))

\* The delimiter in force is one literal character other than the space.
LiteralDelimiter ==
    delimiter # None /\ ~IsPattern(delimiter) /\ ~IsRaw(delimiter) /\ Val(delimiter).s # Space

\* C23: the splitter's fields depend on the line and the delimiter alone: a
\* literal delimiter that occurs k times gives k+1 fields, the empty ones
\* kept, which joined by the delimiter give the line back; whitespace gives
\* the runs of non-whitespace characters in order, never an empty token; raw
\* gives the line itself as the only field.
SplitterContract ==
    \A i \in DOMAIN ingested :
        LET line == ingested[i]
            fields == Fields(line)
        IN /\ LiteralDelimiter =>
                  /\ Len(fields) = CountOf(line, Val(delimiter).s[1]) + 1
                  /\ join(Val(delimiter).s, fields) = line
           /\ (delimiter # None /\ ~IsPattern(delimiter) /\ Val(delimiter).s = Space) =>
                  /\ \A k \in DOMAIN fields :
                         fields[k] # <<>> /\ \A j \in DOMAIN fields[k] : ~IsBlank(fields[k][j])
                  /\ Flat(fields) = Unspaced(line)
           /\ IsRaw(delimiter) => fields = <<line>>

\* A line with two delimiters side by side has been split on the literal
\* delimiter, and the view's columns are the header's fields.
EmptyFieldKept ==
    /\ LiteralDelimiter /\ data_initalized /\ fault = "none"
    /\ \E k \in DOMAIN Fields(ingested[1]) : Fields(ingested[1])[k] = <<>>
    /\ Len(columns) = CountOf(ingested[1], Val(delimiter).s[1]) + 1

\* The rows' values in column pos, as numbers.
ValuesOf(rows, pos) == [i \in DOMAIN rows |-> int(Plain(rows[i][pos]))]

\* The numbers are in order: ascending, or descending if reverse.
NumericOrder(ns, reverse) ==
    \A i, j \in DOMAIN ns : i < j => IF reverse THEN ns[i] >= ns[j] ELSE ns[i] <= ns[j]

\* C24: with a sort on a column of numeric values, the display rows are in
\* numeric order (reversed when descending) after every line that is
\* ingested, whatever values arrived before, in the first batch or later.
NumericOrderKept ==
    [][(ingested' # ingested /\ sort_column' # None /\ fault' = "none")
          => NumericOrder(ValuesOf(displayed_rows', 1), sort_reverse')]_vars

\* The displayed values of the sort column, as _add_log_line hands them to
\* _bisect_left.
DisplayedSortKeys == [i \in DOMAIN displayed_rows |-> SortValue(displayed_rows[i])]

\* The values a new line may bring in the sort column.
NewSortValues == {<<"1">>, <<"2">>, <<"1", "0">>, <<"a">>}

\* C25: under a sort, the insertion index of a new value is found comparing
\* numbers when the new value and all the displayed sort values are numeric,
\* and strings otherwise; it is always an index in 0..len(display rows).
BisectComparesAlike ==
    (Running /\ data_initalized /\ sort_column # None
       /\ _get_col_idx_by_name(columns, Val(sort_column)) # None
       /\ \A i \in DOMAIN displayed_rows : SortPos <= Len(displayed_rows[i]))
    => \A value \in NewSortValues :
           LET keys == DisplayedSortKeys
               numbers == isnumeric(value) /\ \A i \in DOMAIN keys : isnumeric(keys[i])
               below == IF numbers
                        THEN Cardinality({i \in DOMAIN keys : int(keys[i]) < int(value)})
                        ELSE Cardinality({i \in DOMAIN keys : StrLess(keys[i], value)})
               found == _bisect_left(keys, value, sort_reverse)
           IN /\ found.fault = "none"
              /\ found.idx = (IF sort_reverse THEN Len(keys) - below ELSE below)
              /\ found.idx \in 0..Len(displayed_rows)

\* The number of skipped rows a handler's notifications tell of (0 if none).
SkippedTold(notes) ==
    LET S == {i \in 1..Len(notes) : notes[i].text = "rows not matching columns, skipped"}
    IN IF S = {} THEN 0 ELSE notes[CHOOSE i \in S : TRUE].n

\* The lines of the raw store whose field count is not the header's.
Malformed == {i \in DOMAIN raw_rows : ~WellFormed(raw_rows[i])}

\* The view after add_logs is as it was before.
ViewUntouched(st) ==
    /\ st.displayed_rows = displayed_rows
    /\ st.count_by_column_key = count_by_column_key
    /\ st.search_matches = search_matches
    /\ st.current_match_index = current_match_index
    /\ st.cursor_coordinate = cursor_coordinate

\* C26: appending a line whose field count is not the header's counts one
\* more malformed line, which the app tells the user of, and leaves the
\* display rows, the count table, the match index and the cursor as they
\* were.
MalformedAppendCounted ==
    [][\A line \in Lines :
           LET st == handle_input(Ingest, <<line>>)
           IN (/\ Running /\ data_initalized
               /\ delimiter = Some(StrDelim(Comma))
               /\ ~WellFormed(line)
               /\ Commit(st))
              => /\ ViewUntouched(st)
                 /\ SkippedTold(st.notice) = Cardinality(Malformed) + 1]_vars

\* The first line of the raw store (by position) with the key of the row.
FirstSeen(row) ==
    LET S == WithKey(KeyOf(DataOf(row)))
    IN CHOOSE n \in S : \A m \in S : n <= m

\* C27: when deduplicating without a sort, the display rows list the keys in
\* the order in which each key first arrived; a later line of a key that is
\* shown leaves the key's row where it is, after a rebuild and after an
\* append alike.
KeysInFirstSeenOrder ==
    (Running /\ data_initalized /\ Deduplicating /\ sort_column = None /\ current_filter = None)
    => /\ \A i \in DOMAIN displayed_rows : WithKey(KeyOf(DataOf(displayed_rows[i]))) # {}
       /\ \A i, j \in DOMAIN displayed_rows :
              i < j => FirstSeen(displayed_rows[i]) < FirstSeen(displayed_rows[j])

\* C28: the entries of search_matches are in display order, by row and then
\* by column, after a rebuild and after every append, the sorted inserts
\* that land above rows already shown included.
MatchIndexInDisplayOrder ==
    (Running /\ data_initalized)
    => \A i, j \in 1..Len(search_matches) :
           i < j => \/ search_matches[i][1] < search_matches[j][1]
                    \/ /\ search_matches[i][1] = search_matches[j][1]
                       /\ search_matches[i][2] < search_matches[j][2]

\* The step of a search-to-filter command.
SearchToFilterStep == Commit(action_search_to_filter(Begin))

\* C29: search-to-filter with a search term makes the term the filter, over
\* any column, rebuilds the view and keeps the search term; without a search
\* term it warns and leaves the filter, its column and the display rows as
\* they were.
SearchBecomesFilter ==
    [][SearchToFilterStep =>
           IF search_term # None
           THEN /\ current_filter' = search_term
                /\ filter_column_name' = None
                /\ search_term' = search_term
                /\ rebuilt'
           ELSE /\ \E i \in 1..Len(notice') : notice'[i].severity = "warning"
                /\ current_filter' = current_filter
                /\ filter_column_name' = filter_column_name
                /\ displayed_rows' = displayed_rows
                /\ ~rebuilt']_vars

\* How often the call occurs among the calls.
CallsOf(calls, name) == Cardinality({i \in DOMAIN calls : calls[i] = name})

\* The step of a toggle-tail command.
ToggleTailStep == Commit(action_toggle_tail(Begin))

\* Every insertion is followed at once by a scroll to the bottom, and there is
\* no other scroll.
ScrollAfterEachInsert(calls) ==
    \A i \in DOMAIN calls :
        /\ calls[i] = "add_row_at" =>
               i < Len(calls) /\ calls[i + 1] = "action_scroll_bottom"
        /\ calls[i] = "action_scroll_bottom" => i > 1 /\ calls[i - 1] = "add_row_at"

\* C30: while tailing, each row _add_log_line inserts is followed by a scroll
\* to the bottom, issued after the insertion; there is no scroll when not
\* tailing, and none for a line that is not inserted (without deduplication
\* the insertions are as many as the rows the display grows by).  A
\* toggle-tail command changes the tail flag and nothing else of the app's
\* state.
TailScrollsAfterInsert ==
    /\ [](IF is_tailing THEN ScrollAfterEachInsert(table_calls)
          ELSE CallsOf(table_calls, "action_scroll_bottom") = 0)
    /\ [][/\ (ingested' # ingested /\ data_initalized /\ unique_column_names = {})
              => CallsOf(table_calls', "add_row_at")
                     = Len(displayed_rows') - Len(displayed_rows)
          /\ ToggleTailStep
              => /\ is_tailing' = ~is_tailing
                 /\ UNCHANGED <<raw_rows, raw_header, displayed_rows, columns, delimiter,
                                current_filter, filter_column_name, search_term,
                                sort_column, sort_reverse, unique_column_names,
                                count_by_column_key, search_matches,
                                current_match_index, cursor_coordinate,
                                first_row_parsed, data_initalized, fault, pending>>]_vars

\* While tailing, a batch of two lines has come of which one was inserted
\* and scrolled to, and the other was dropped.
TailedOneOfTwo ==
    /\ is_tailing /\ fault = "none" /\ data_initalized /\ thread = "ingestion"
    /\ table_calls = <<"add_row_at", "action_scroll_bottom">>
    /\ Len(raw_rows) >= 2 /\ Len(displayed_rows) = 1

\* C31: when deduplicating under an any-column filter, an append admits a
\* line iff the rebuild's filter admits it: the filter looks at the line's
\* data fields, and the count cell put in front never makes a line pass.
AppendFiltersLikeRebuild ==
    (Running /\ data_initalized /\ unique_column_names # {}
       /\ current_filter # None /\ filter_column_name = None)
    => \A line \in Lines :
           LET cells == split_line(line, delimiter)
           IN (/\ Len(cells) = expected_cell_count(columns)
               /\ Len(WithCount(Self, cells)) = Len(columns))
              => (AppendFilter(Self, WithCount(Self, cells)) = "pass"
                    <=> AnyCellMatches(Val(current_filter), cells))

\* C32: whatever change-delimiter commands were given, the header line (when
\* one is set aside, that is under a splitting delimiter) followed by the raw
\* store is the ingested lines in arrival order: none lost, none made up.
DelimiterChangesKeepLines ==
    (Running /\ data_initalized)
    => (IF IsRaw(delimiter) \/ IsPattern(delimiter) THEN raw_rows
        ELSE <<raw_header>> \o raw_rows) = ingested

\* The key-column values of the lines of the raw store, one tuple per key.
KeysArrived == {KeyOf(Fields(raw_rows[n])) : n \in Admitted}

\* C33: lines are merged into one display row only if they agree on the
\* value of every unique-key column: there are at least as many display rows
\* as there are tuples of key values among the lines, also when a value
\* holds a comma.
KeysMergeOnlyEqualTuples ==
    (Running /\ data_initalized /\ Deduplicating)
    => Len(displayed_rows) >= Cardinality(KeysArrived)

\* C34: a column the header itself names "count" is a data column like any
\* other: with no unique keys (and no filter) a rebuild shows the header's
\* columns, no more and no fewer, shows every line with as many fields as the
\* header, and reports the other lines alone as skipped.
CountNamedColumnIsData ==
    (Running /\ data_initalized /\ rebuilt /\ unique_column_names = {}
       /\ current_filter = None /\ ~IsRaw(delimiter) /\ ~IsPattern(delimiter)
       /\ HeaderPos(CountName) > 0)
    => /\ Len(columns) = Len(HeaderFields)
       /\ \A i \in DOMAIN displayed_rows : Len(displayed_rows[i]) = Len(HeaderFields)
       /\ Len(displayed_rows) = Cardinality({n \in DOMAIN raw_rows : WellFormed(raw_rows[n])})
       /\ SkippedShown = Cardinality(Malformed)

\* C35: the match cursor is always -1 or the index of an entry of
\* search_matches, and it is -1 whenever search_matches is empty.
MatchCursorInRange ==
    /\ -1 <= current_match_index
    /\ current_match_index < Len(search_matches)
    /\ search_matches = <<>> => current_match_index = -1

\* A Next() has taken the match cursor to the last of several matches.
MatchCursorAtLast ==
    /\ Running /\ thread = "ui" /\ ~rebuilt /\ notice = NoNotice
    /\ Len(search_matches) >= 2
    /\ current_match_index = Len(search_matches) - 1

\* C36: with matches and the match cursor unset (-1), Next() goes to the
\* first match and Previous() goes to the last match.
UnsetCursorNavigation ==
    [][(Running /\ search_matches # <<>> /\ current_match_index = -1)
          => /\ Commit(action_next_search(Begin))
                 => /\ current_match_index' = 0
                    /\ cursor_coordinate' = search_matches[1]
             /\ Commit(action_previous_search(Begin))
                 => /\ current_match_index' = Len(search_matches) - 1
                    /\ cursor_coordinate' = search_matches[Len(search_matches)]]_vars

\* C37: no batch of lines is handed to add_logs before the app is mounted, and
\* none is empty: whenever the last handler was handed a batch, the mounted
\* flag is set and the batch holds a line, and every step in which lines
\* arrive starts with the mounted flag set and hands exactly those lines.
BatchesOnlyOnceMounted ==
    /\ [](handed # None => mounted /\ Val(handed) # <<>>)
    /\ [][ingested' # ingested => mounted /\ handed' = Some(Arrived)]_vars

\* The consumer has handed a batch to the mounted app.
BatchDelivered == mounted /\ handed # None /\ Val(handed) # <<>> /\ ingested # <<>>

====
